---- MODULE Spec2Model ----
(***************************************************************************)
(* Model of perses/rjmc/geometry.py: the proposal-order planner            *)
(* (NetworkXProposalOrder), the growth-indexed energy model builder        *)
(* (GeometrySystemGenerator) and the geometry sampler                      *)
(* (FFAllAngleGeometryEngine._logp_propose).                               *)
(*                                                                         *)
(* Atoms are integer indices.  A residue is a record                       *)
(*   n      number of atoms (indices 0..n-1)                               *)
(*   bonds  the residue's bonds in residue.bonds() order (this fixes the   *)
(*          adjacency order of the networkx residue graph)                 *)
(*   hyd    the hydrogens                                                  *)
(*   new    the unique new atoms of the chosen direction                   *)
(*   cycles the cycle basis of the residue graph (ring-membership input)   *)
(*   constraints  the bonds that are constrained (no bond parameters)      *)
(*   no_params    the bonds with neither parameters nor a constraint       *)
(*   no_angle     the atom triples bonded in a row that share no angle term *)
(*   close_exceptions  pairs of atoms closer than three bonds for which     *)
(*          the NonbondedForce holds an exception with nonzero values       *)
(*   other  the terms of forces of other classes than the harmonic bond,   *)
(*          harmonic angle, periodic torsion and nonbonded forces          *)
(***************************************************************************)
EXTENDS Integers, Sequences, FiniteSets, TLC

VARIABLES
    residue,            \* the transforming residue (input of one proposal)
    direction,          \* "forward" | "reverse"
    heavy,              \* NetworkXProposalOrder._heavy
    hydrogens,          \* NetworkXProposalOrder._hydrogens
    atoms_with_positions_set,         \* ._atoms_with_positions_set
    residue_atoms_with_positions_set, \* ._residue_atoms_with_positions_set
    connectivity_graph, \* ._connectivity_graph, [nodes, edges]
    heavy_atoms_torsions, heavy_logp,       \* result of the heavy call
    hydrogen_atoms_torsions, hydrogen_logp, \* result of the hydrogen call
    ring,               \* position inside the ring-closure loops
    drawn_from,         \* history: the list each torsion was drawn from
    pc                  \* position of the proposal call

planvars == << residue, direction, heavy, hydrogens, atoms_with_positions_set,
               residue_atoms_with_positions_set, connectivity_graph,
               heavy_atoms_torsions, heavy_logp, hydrogen_atoms_torsions,
               hydrogen_logp, ring, drawn_from, pc >>

planvars_but_pc ==
    << residue, direction, heavy, hydrogens, atoms_with_positions_set,
       residue_atoms_with_positions_set, connectivity_graph,
       heavy_atoms_torsions, heavy_logp, hydrogen_atoms_torsions,
       hydrogen_logp, ring, drawn_from >>

VARIABLES
    neglect_angles,     \* FFAllAngleGeometryEngine.neglect_angles
    error,              \* the exception that ended the proposal, or "none"
    torsion_proposal_order, logp_choice,  \* what the planner returned
    growth_system,      \* GeometrySystemGenerator._growth_system
    atoms_with_positions_system,          \* ._atoms_with_positions_system
    special_terms,      \* GeometrySystemGenerator.special_terms
    neglected_angle_terms,                \* .neglected_angle_terms
    old_positions,      \* the argument old_positions
    new_positions,      \* the argument / working array new_positions
    growth_stage,       \* the growth context's global parameter
    growth_parameter_value,
    atoms_with_positions_reduced_potential,
    energy_logger,
    rjmc_info,
    logp_proposal,
    final_context_reduced_potential

VARIABLE
    scoring             \* a distribution, the value drawn from it and its score

VARIABLE
    engine              \* the engine object: use_sterics, nproposed and the
                        \* outcome of its last propose() or logp_reverse()

enginevars == << neglect_angles, torsion_proposal_order, logp_choice,
                 growth_system, atoms_with_positions_system, special_terms,
                 neglected_angle_terms, old_positions, new_positions,
                 growth_stage, growth_parameter_value,
                 atoms_with_positions_reduced_potential, energy_logger,
                 rjmc_info, logp_proposal, final_context_reduced_potential >>

-----------------------------------------------------------------------------
(* Generic helpers *)

Last(s) == s[Len(s)]

SeqToSet(s) == { s[i] : i \in 1..Len(s) }

\* list.remove(x): drops the first occurrence of x
RECURSIVE Remove(_, _)
Remove(s, x) ==
    IF s = <<>> THEN <<>>
    ELSE IF Head(s) = x THEN Tail(s)
    ELSE <<Head(s)>> \o Remove(Tail(s), x)

\* ascending list of the members of a set of integers
RECURSIVE SortedSeq(_)
SortedSeq(S) ==
    IF S = {} THEN <<>>
    ELSE LET m == CHOOSE x \in S : \A y \in S : x <= y
         IN  <<m>> \o SortedSeq(S \ {m})

RECURSIVE Pow2(_)
Pow2(e) == IF e <= 0 THEN 1 ELSE 2 * Pow2(e - 1)

RECURSIVE FloorLog2(_)
FloorLog2(x) == IF x < 2 THEN 0 ELSE 1 + FloorLog2(x \div 2)

\* np.log in fixed point: the logarithm of a positive integer, in units of
\* 1/1000 of a doubling, linear between consecutive powers of two.
Log(x) ==
    LET e == FloorLog2(x)
        p == Pow2(e)
    IN  1000 * e + (IF p < 1000000 THEN (1000 * (x - p)) \div p
                    ELSE (x - p) \div (p \div 1000))

-----------------------------------------------------------------------------
(* The residue graph *)

\* adjacency list of u in the residue graph, in insertion order
RECURSIVE NbrsFrom(_, _, _)
NbrsFrom(bonds, u, i) ==
    IF i > Len(bonds) THEN <<>>
    ELSE (IF bonds[i][1] = u THEN << bonds[i][2] >>
          ELSE IF bonds[i][2] = u THEN << bonds[i][1] >>
          ELSE <<>>) \o NbrsFrom(bonds, u, i + 1)

Nbrs(bonds, u) == NbrsFrom(bonds, u, 1)

HasEdge(bonds, a, b) ==
    \E i \in 1..Len(bonds) : {bonds[i][1], bonds[i][2]} = {a, b}

\* cycle_membership attribute of an atom: the indices of its cycles
cycle_membership(res, a) ==
    SortedSeq({ c \in 1..Len(res.cycles) : a \in res.cycles[c] })

-----------------------------------------------------------------------------
(* networkx traversals used by the planner *)

PathTo(paths, v) == paths[CHOOSE i \in 1..Len(paths) : Last(paths[i]) = v]

\* inner loop of _single_shortest_path: "for w in adj[v]: if w not in paths"
RECURSIVE ScanNbrs(_, _, _, _)
ScanNbrs(ws, pv, paths, next) ==
    IF ws = <<>> THEN [paths |-> paths, next |-> next]
    ELSE LET w == Head(ws)
         IN  IF \E i \in 1..Len(paths) : Last(paths[i]) = w
             THEN ScanNbrs(Tail(ws), pv, paths, next)
             ELSE ScanNbrs(Tail(ws), pv, Append(paths, Append(pv, w)),
                           Append(next, w))

\* "for v in thislevel"
RECURSIVE ScanLevel(_, _, _, _)
ScanLevel(bonds, vs, paths, next) ==
    IF vs = <<>> THEN [paths |-> paths, next |-> next]
    ELSE LET r == ScanNbrs(Nbrs(bonds, Head(vs)), PathTo(paths, Head(vs)),
                           paths, next)
         IN  ScanLevel(bonds, Tail(vs), r.paths, r.next)

RECURSIVE BfsLevels(_, _, _, _, _)
BfsLevels(bonds, thislevel, paths, level, cutoff) ==
    IF thislevel = <<>> \/ ~(cutoff > level) THEN paths
    ELSE LET r == ScanLevel(bonds, thislevel, paths, <<>>)
         IN  BfsLevels(bonds, r.next, r.paths, level + 1, cutoff)

\* a search that stops one bond short of the cutoff
single_source_shortest_path_one_short(bonds, source, cutoff) ==
    BfsLevels(bonds, <<source>>, << <<source>> >>, 0, cutoff - 1)

\* nx.algorithms.single_source_shortest_path(G, source, cutoff): one
\* shortest path per node within the cutoff, in order of discovery
single_source_shortest_path(bonds, source, cutoff) ==
    BfsLevels(bonds, <<source>>, << <<source>> >>, 0, cutoff)

\* the four-node paths among all_simple_paths(G, source, target), in the
\* depth-first order in which networkx yields them
RECURSIVE ThirdNodes(_, _, _, _, _)
ThirdNodes(bonds, source, b, cs, target) ==
    IF cs = <<>> THEN <<>>
    ELSE LET c == Head(cs)
         IN  (IF c \notin {source, b, target} /\ HasEdge(bonds, c, target)
              THEN << <<source, b, c, target>> >> ELSE <<>>)
             \o ThirdNodes(bonds, source, b, Tail(cs), target)

RECURSIVE SecondNodes(_, _, _, _)
SecondNodes(bonds, source, bs, target) ==
    IF bs = <<>> THEN <<>>
    ELSE LET b == Head(bs)
         IN  (IF b \notin {source, target}
              THEN ThirdNodes(bonds, source, b, Nbrs(bonds, b), target)
              ELSE <<>>)
             \o SecondNodes(bonds, source, Tail(bs), target)

simple_paths_of_four(bonds, source, target) ==
    IF source = target THEN <<>>
    ELSE SecondNodes(bonds, source, Nbrs(bonds, source), target)

-----------------------------------------------------------------------------
(* NetworkXProposalOrder.produce_eligible_torsions_list *)

ConnHasEdge(cg, a, b) == {a, b} \in cg.edges

\* ring closure: {i[-1]: i for i in shortest_paths_flat if len(i) == 4};
\* a later path to the same destination replaces an earlier one
RECURSIVE RingPaths(_, _, _)
RingPaths(bonds, atom, pds) ==
    IF pds = <<>> THEN <<>>
    ELSE LET ps == simple_paths_of_four(bonds, atom, Head(pds))
         IN  (IF ps = <<>> THEN <<>> ELSE << Last(ps) >>)
             \o RingPaths(bonds, atom, Tail(pds))

possible_destinations(res, atom, positioned) ==
    SortedSeq({ a \in 0..(res.n - 1) :
                  /\ SeqToSet(cycle_membership(res, a))
                       \cap SeqToSet(cycle_membership(res, atom)) # {}
                  /\ a \in positioned })

ShortestPathsOf(res, atom, positioned, ring_closure) ==
    IF ~ring_closure
    THEN single_source_shortest_path(res.bonds, atom, 3)
    ELSE RingPaths(res.bonds, atom, possible_destinations(res, atom, positioned))

\* an eligibility test that looks at the length of the path only
AnyPathOfFourEligible(index_path, positioned, cg) ==
    Len(index_path) = 4

\* the test applied to every (destination, path) pair
TorsionEligible(index_path, positioned, cg) ==
    /\ Len(index_path) = 4
    /\ index_path[4] \in positioned
    /\ ConnHasEdge(cg, index_path[2], index_path[3])
    /\ ConnHasEdge(cg, index_path[3], index_path[4])
    /\ {index_path[2], index_path[3], index_path[4]} \subseteq positioned

RECURSIVE FilterPaths(_, _, _)
FilterPaths(paths, positioned, cg) ==
    IF paths = <<>> THEN <<>>
    ELSE (IF TorsionEligible(Head(paths), positioned, cg)
          THEN << Head(paths) >> ELSE <<>>)
         \o FilterPaths(Tail(paths), positioned, cg)

RECURSIVE produce_eligible_torsions_list(_, _, _, _, _)
produce_eligible_torsions_list(res, atom_group, positioned, cg, ring_closure) ==
    IF atom_group = <<>> THEN <<>>
    ELSE FilterPaths(ShortestPathsOf(res, Head(atom_group), positioned,
                                     ring_closure), positioned, cg)
         \o produce_eligible_torsions_list(res, Tail(atom_group), positioned,
                                           cg, ring_closure)

\* a connectivity update that leaves out the bond of the new atom
add_torsion_connectivity_tail(res, cg, torsion) ==
    [nodes |-> cg.nodes \cup {torsion[1]},
     edges |-> cg.edges \cup
         { {torsion[i], torsion[i + 1]} : i \in
             { j \in 2..3 : HasEdge(res.bonds, torsion[j], torsion[j + 1]) } }]

\* NetworkXProposalOrder.add_torsion_connectivity
add_torsion_connectivity(res, cg, torsion) ==
    [nodes |-> cg.nodes \cup {torsion[1]},
     edges |-> cg.edges \cup
         { {torsion[i], torsion[i + 1]} : i \in
             { j \in 1..3 : HasEdge(res.bonds, torsion[j], torsion[j + 1]) } }]

\* the log-probability of a choice among one torsion too many
LogOfChoiceAmongOneMore(ntorsions) == 0 - Log(ntorsions + 1)

\* np.log(1./ntorsions)
LogOfChoice(ntorsions) == 0 - Log(ntorsions)

-----------------------------------------------------------------------------
(* Inputs: the residues a proposal is made for *)

\* H3 added to the chain C0-C1-C2
TerminalHydrogen ==
    [n |-> 4, bonds |-> << <<0, 1>>, <<1, 2>>, <<2, 3>> >>,
     hyd |-> {3}, new |-> {3}, cycles |-> <<>>,
     constraints |-> { {2, 3} }, no_params |-> {}, no_angle |-> {}, close_exceptions |-> {},
     other |-> <<>>]

\* heavy atom 3 and hydrogen 4 both added to atom 2 of the chain 0-1-2
HeavyAndHydrogen ==
    [n |-> 5, bonds |-> << <<0, 1>>, <<1, 2>>, <<2, 3>>, <<2, 4>> >>,
     hyd |-> {4}, new |-> {3, 4}, cycles |-> <<>>,
     constraints |-> {}, no_params |-> {}, no_angle |-> {}, close_exceptions |-> {},
     other |-> <<>>]

\* heavy atom 3 added to the chain 0-1-2 and hydrogen 4 added to atom 3
HydrogenOnNewAtom ==
    [n |-> 5, bonds |-> << <<0, 1>>, <<1, 2>>, <<2, 3>>, <<3, 4>> >>,
     hyd |-> {4}, new |-> {3, 4}, cycles |-> <<>>,
     constraints |-> {}, no_params |-> {}, no_angle |-> {}, close_exceptions |-> {},
     other |-> <<>>]

\* four-membered ring 0-1-2-3 with substituent 4 on atom 0; ring atoms 2
\* and 3 are new
FourRing ==
    [n |-> 5,
     bonds |-> << <<0, 1>>, <<1, 2>>, <<2, 3>>, <<3, 0>>, <<0, 4>> >>,
     hyd |-> {}, new |-> {2, 3}, cycles |-> << {0, 1, 2, 3} >>,
     constraints |-> {}, no_params |-> {}, no_angle |-> {}, close_exceptions |-> {},
     other |-> <<>>]

\* the same ring with a further new heavy atom 5 on ring atom 1
FourRingSubstituted ==
    [n |-> 6,
     bonds |-> << <<0, 1>>, <<1, 2>>, <<2, 3>>, <<3, 0>>, <<0, 4>>, <<1, 5>> >>,
     hyd |-> {}, new |-> {2, 3, 5}, cycles |-> << {0, 1, 2, 3} >>,
     constraints |-> {}, no_params |-> {}, no_angle |-> {}, close_exceptions |-> {},
     other |-> <<>>]

\* the ring of FourRing with hydrogen 5 added to the new ring atom 2
FourRingHydrogen ==
    [n |-> 6,
     bonds |-> << <<0, 1>>, <<1, 2>>, <<2, 3>>, <<3, 0>>, <<0, 4>>, <<2, 5>> >>,
     hyd |-> {5}, new |-> {2, 3, 5}, cycles |-> << {0, 1, 2, 3} >>,
     constraints |-> {}, no_params |-> {}, no_angle |-> {}, close_exceptions |-> {},
     other |-> <<>>]

\* triangle 0-1-2 of which 0 and 1 have positions, on the chain 1-3-4
Triangle ==
    [n |-> 5,
     bonds |-> << <<0, 1>>, <<1, 2>>, <<2, 0>>, <<1, 3>>, <<3, 4>> >>,
     hyd |-> {}, new |-> {2}, cycles |-> << {0, 1, 2} >>,
     constraints |-> {}, no_params |-> {}, no_angle |-> {}, close_exceptions |-> {},
     other |-> <<>>]

\* a residue too small to hold any torsion
NoTorsion ==
    [n |-> 3, bonds |-> << <<0, 1>>, <<1, 2>> >>,
     hyd |-> {}, new |-> {2}, cycles |-> <<>>,
     constraints |-> {}, no_params |-> {}, no_angle |-> {}, close_exceptions |-> {},
     other |-> <<>>]

\* heavy atom 3 added to the chain 0-1-2 of a system that also holds a
\* force of a class the builder does not know, acting on the pair (2, 3)
Restrained ==
    [n |-> 4, bonds |-> << <<0, 1>>, <<1, 2>>, <<2, 3>> >>,
     hyd |-> {}, new |-> {3}, cycles |-> <<>>,
     constraints |-> {}, no_params |-> {}, no_angle |-> {}, close_exceptions |-> {},
     other |-> << [p |-> <<2, 3>>, params |-> <<3000, 1, 0>>] >>]

\* two four-membered rings that share the atoms 0, 1 and 3 (bridgeheads 0
\* and 1, bridges 2, 3 and 4), substituent 5 on atom 4; the shared atoms 0
\* and 3 are new
Bicycle ==
    [n |-> 6,
     bonds |-> << <<0, 4>>, <<0, 2>>, <<1, 3>>, <<0, 3>>, <<1, 2>>, <<1, 4>>,
                  <<4, 5>> >>,
     hyd |-> {}, new |-> {0, 3}, cycles |-> << {0, 1, 2, 3}, {0, 1, 3, 4} >>,
     constraints |-> {}, no_params |-> {}, no_angle |-> {}, close_exceptions |-> {},
     other |-> <<>>]

\* two four-membered rings 0-1-2-3 and 2-3-4-5 that share the bond 2-3,
\* substituent 6 on atom 0; atom 2 of both rings, atom 1 of the first and
\* atom 4 of the second are new
FusedRings ==
    [n |-> 7,
     bonds |-> << <<0, 1>>, <<2, 3>>, <<1, 2>>, <<3, 0>>, <<3, 4>>, <<4, 5>>,
                  <<5, 2>>, <<0, 6>> >>,
     hyd |-> {}, new |-> {1, 2, 4}, cycles |-> << {0, 1, 2, 3}, {2, 3, 4, 5} >>,
     constraints |-> {}, no_params |-> {}, no_angle |-> {}, close_exceptions |-> {},
     other |-> <<>>]

\* heavy atom 3 added to the chain 0-1-2 by a bond that has neither
\* parameters nor a constraint
UnparametrisedBond ==
    [n |-> 4, bonds |-> << <<0, 1>>, <<1, 2>>, <<2, 3>> >>,
     hyd |-> {}, new |-> {3}, cycles |-> <<>>,
     constraints |-> {}, no_params |-> { {2, 3} }, no_angle |-> {}, close_exceptions |-> {},
     other |-> <<>>]

\* heavy atom 3 added to the chain 0-1-2; the atoms 3, 2 and 1 share no
\* angle term
MissingAngle ==
    [n |-> 4, bonds |-> << <<0, 1>>, <<1, 2>>, <<2, 3>> >>,
     hyd |-> {}, new |-> {3}, cycles |-> <<>>,
     constraints |-> {}, no_params |-> {}, no_angle |-> { {1, 2, 3} }, close_exceptions |-> {},
     other |-> <<>>]

\* the five-membered ring 0-1-2-3-4 with substituents 5 on atom 0 and 6 on
\* atom 1; the ring atoms 2, 3 and 4 are new
FiveRing ==
    [n |-> 7,
     bonds |-> << <<0, 1>>, <<1, 2>>, <<2, 3>>, <<3, 4>>, <<4, 0>>, <<0, 5>>,
                  <<1, 6>> >>,
     hyd |-> {}, new |-> {2, 3, 4}, cycles |-> << {0, 1, 2, 3, 4} >>,
     constraints |-> {}, no_params |-> {}, no_angle |-> {}, close_exceptions |-> {},
     other |-> <<>>]

\* heavy atom 3 added to the chain 0-1-2; the reference NonbondedForce
\* holds an exception with nonzero parameters for the atoms 1 and 3, which
\* are two bonds apart
CloseException ==
    [n |-> 4, bonds |-> << <<0, 1>>, <<1, 2>>, <<2, 3>> >>,
     hyd |-> {}, new |-> {3}, cycles |-> <<>>,
     constraints |-> {}, no_params |-> {}, no_angle |-> {},
     close_exceptions |-> { <<1, 3>> },
     other |-> <<>>]

Residues ==
    { TerminalHydrogen, HeavyAndHydrogen, HydrogenOnNewAtom, FourRing,
      FourRingSubstituted, FourRingHydrogen, Triangle, NoTorsion, Restrained,
      Bicycle, FusedRings, UnparametrisedBond, MissingAngle, FiveRing,
      CloseException }

Directions == { "forward", "reverse" }

-----------------------------------------------------------------------------
(* NetworkXProposalOrder.__init__ *)

NoRing ==
    [active |-> FALSE, membership |-> <<>>, unplaced_atoms |-> <<>>,
     idx |-> 0, cycle_atom_group |-> <<>>, placed_atoms_in_cycle |-> {}]

InitialConnectivity(res) ==
    [nodes |-> (0..(res.n - 1)) \ res.new,
     edges |-> { {res.bonds[i][1], res.bonds[i][2]} : i \in
                   { j \in 1..Len(res.bonds) :
                       {res.bonds[j][1], res.bonds[j][2]} \cap res.new = {} } }]

\* a planner that starts with the hydrogens
FirstPcHydrogens(res) ==
    IF res.new \cap res.hyd # {} THEN "plan_hydrogens"
    ELSE IF res.new \ res.hyd # {} THEN "plan_heavy"
    ELSE "plan_done"

\* the first call of determine_proposal_order plans the heavy atoms; with
\* no heavy atom its loop body never runs and the hydrogen call follows
FirstPc(res) ==
    IF res.new \ res.hyd # {} THEN "plan_heavy"
    ELSE IF res.new \cap res.hyd # {} THEN "plan_hydrogens"
    ELSE "plan_done"

PlannerInit(res, dir) ==
    /\ residue = res
    /\ direction = dir
    /\ heavy = SortedSeq(res.new \ res.hyd)
    /\ hydrogens = SortedSeq(res.new \cap res.hyd)
    /\ atoms_with_positions_set = (0..(res.n - 1)) \ res.new
    /\ residue_atoms_with_positions_set = (0..(res.n - 1)) \ res.new
    /\ connectivity_graph = InitialConnectivity(res)
    /\ heavy_atoms_torsions = <<>>
    /\ heavy_logp = <<>>
    /\ hydrogen_atoms_torsions = <<>>
    /\ hydrogen_logp = <<>>
    /\ ring = NoRing
    /\ drawn_from = <<>>
    /\ pc = FirstPc(res)

-----------------------------------------------------------------------------
(* NetworkXProposalOrder._propose_atoms_in_order *)

InCycle(res, a, cycle) == cycle \in SeqToSet(cycle_membership(res, a))

RECURSIVE SelectInCycle(_, _, _)
SelectInCycle(res, atom_group, cycle) ==
    IF atom_group = <<>> THEN <<>>
    ELSE (IF InCycle(res, Head(atom_group), cycle)
          THEN << Head(atom_group) >> ELSE <<>>)
         \o SelectInCycle(res, Tail(atom_group), cycle)

\* unplaced_atoms = {cycle: [atoms of atom_group in that cycle]}
UnplacedAtoms(res, atom_group, membership) ==
    [i \in 1..Len(membership) |-> SelectInCycle(res, atom_group, membership[i])]

PlacedInCycle(res, positioned, cycle) ==
    { a \in positioned : a < res.n /\ InCycle(res, a, cycle) }

\* the entry test of the inner loop
RingClosureNeeded(cycle_atom_group, placed_atoms_in_cycle) ==
    Len(cycle_atom_group) > 0 /\ Cardinality(placed_atoms_in_cycle) > 2

\* "for cycle in unplaced_atoms.keys()": skip the cycles that need no
\* closure and stop at the first that does; i is the next key to look at
RECURSIVE NextCycle(_, _, _, _, _)
NextCycle(res, membership, unplaced, i, positioned) ==
    IF i > Len(membership) THEN NoRing
    ELSE LET placed == PlacedInCycle(res, positioned, membership[i])
         IN  IF RingClosureNeeded(unplaced[i], placed)
             THEN [active |-> TRUE, membership |-> membership,
                   unplaced_atoms |-> unplaced, idx |-> i,
                   cycle_atom_group |-> unplaced[i],
                   placed_atoms_in_cycle |-> placed]
             ELSE NextCycle(res, membership, unplaced, i + 1, positioned)

\* a call that returns after its first selection
PcAfterFirstSelection(g, group, rng, others) ==
    IF g = "plan_heavy" /\ others # <<>> THEN "plan_hydrogens"
    ELSE "plan_done"

\* where the call stands once a selection is done
PcAfter(g, group, rng, others) ==
    IF rng.active \/ group # <<>> THEN g
    ELSE IF g = "plan_heavy" /\ others # <<>> THEN "plan_hydrogens"
    ELSE "plan_done"

GroupOf(g) == IF g = "plan_heavy" THEN heavy ELSE hydrogens

\* a call that returns what it has planned so far when no torsion is left
PcWhenNoTorsionReturns(g) == "plan_done"

\* the assertion of the outer loop and the exception of the ring-closure
\* loop end the call and the proposal
PcWhenNoTorsion(g) == "failed"

\* one pass of the outer while loop
ProposeAtom(g) ==
    /\ pc = g
    /\ ~ring.active
    /\ LET atom_group == GroupOf(g)
           eligible == produce_eligible_torsions_list(residue, atom_group,
                           atoms_with_positions_set, connectivity_graph, FALSE)
       IN  IF Len(eligible) = 0
           THEN /\ pc' = PcWhenNoTorsion(g)
                /\ error' = "AssertionError"
                /\ UNCHANGED << heavy, hydrogens, atoms_with_positions_set,
                                residue_atoms_with_positions_set,
                                connectivity_graph, heavy_atoms_torsions,
                                heavy_logp, hydrogen_atoms_torsions,
                                hydrogen_logp, ring, drawn_from >>
           ELSE \E random_torsion_index \in 1..Len(eligible) :
                LET random_torsion == eligible[random_torsion_index]
                    chosen == random_torsion[1]
                    group2 == Remove(atom_group, chosen)
                    positioned2 == residue_atoms_with_positions_set \cup {chosen}
                    membership == cycle_membership(residue, chosen)
                    ring2 == NextCycle(residue, membership,
                                 UnplacedAtoms(residue, group2, membership),
                                 1, positioned2)
                IN  /\ IF g = "plan_heavy"
                       THEN /\ heavy' = group2
                            /\ heavy_atoms_torsions' =
                                 Append(heavy_atoms_torsions, random_torsion)
                            /\ heavy_logp' =
                                 Append(heavy_logp, LogOfChoice(Len(eligible)))
                            /\ UNCHANGED << hydrogens, hydrogen_atoms_torsions,
                                            hydrogen_logp >>
                       ELSE /\ hydrogens' = group2
                            /\ hydrogen_atoms_torsions' =
                                 Append(hydrogen_atoms_torsions, random_torsion)
                            /\ hydrogen_logp' =
                                 Append(hydrogen_logp, LogOfChoice(Len(eligible)))
                            /\ UNCHANGED << heavy, heavy_atoms_torsions,
                                            heavy_logp >>
                    /\ atoms_with_positions_set' =
                         atoms_with_positions_set \cup {chosen}
                    /\ residue_atoms_with_positions_set' = positioned2
                    /\ connectivity_graph' =
                         add_torsion_connectivity(residue, connectivity_graph,
                                                  random_torsion)
                    /\ ring' = ring2
                    /\ drawn_from' = Append(drawn_from, eligible)
                    /\ UNCHANGED error
                    /\ pc' = PcAfter(g, group2, ring2,
                                     IF g = "plan_heavy" THEN hydrogens ELSE <<>>)
    /\ UNCHANGED << residue, direction >>
    /\ UNCHANGED << enginevars, scoring, engine >>

\* the filter of the ring-closure loop
InRingTorsion(torsion, placed_atoms_in_cycle) ==
    \/ {torsion[2], torsion[3], torsion[4]} \subseteq placed_atoms_in_cycle
    \/ {torsion[1], torsion[2], torsion[3]} \subseteq placed_atoms_in_cycle

RECURSIVE FilterRing(_, _)
FilterRing(torsions, placed_atoms_in_cycle) ==
    IF torsions = <<>> THEN <<>>
    ELSE (IF InRingTorsion(Head(torsions), placed_atoms_in_cycle)
          THEN << Head(torsions) >> ELSE <<>>)
         \o FilterRing(Tail(torsions), placed_atoms_in_cycle)

\* one pass of the inner while loop (ring closure)
CloseRing(g) ==
    /\ pc = g
    /\ ring.active
    /\ LET atom_group == GroupOf(g)
           eligible == produce_eligible_torsions_list(residue,
                           ring.cycle_atom_group, atoms_with_positions_set,
                           connectivity_graph, TRUE)
           filtered == FilterRing(eligible, ring.placed_atoms_in_cycle)
       IN  IF filtered = <<>>
           THEN /\ pc' = PcWhenNoTorsion(g)
                /\ error' = "Exception"
                /\ UNCHANGED << heavy, hydrogens, atoms_with_positions_set,
                                residue_atoms_with_positions_set,
                                connectivity_graph, heavy_atoms_torsions,
                                heavy_logp, hydrogen_atoms_torsions,
                                hydrogen_logp, ring, drawn_from >>
           ELSE \E random_torsion_index \in 1..Len(filtered) :
                LET random_torsion == filtered[random_torsion_index]
                    chosen == random_torsion[1]
                IN  IF chosen \notin SeqToSet(atom_group)
                    THEN \* atom_torsions.append(random_torsion), then
                         \* atom_group.remove raises ValueError
                         /\ pc' = "failed"
                         /\ error' = "ValueError"
                         /\ IF g = "plan_heavy"
                            THEN /\ heavy_atoms_torsions' =
                                      Append(heavy_atoms_torsions, random_torsion)
                                 /\ UNCHANGED hydrogen_atoms_torsions
                            ELSE /\ hydrogen_atoms_torsions' =
                                      Append(hydrogen_atoms_torsions,
                                             random_torsion)
                                 /\ UNCHANGED heavy_atoms_torsions
                         /\ UNCHANGED << heavy, hydrogens,
                                atoms_with_positions_set,
                                residue_atoms_with_positions_set,
                                connectivity_graph, heavy_logp,
                                hydrogen_logp, ring, drawn_from >>
                    ELSE
                    LET group2 == Remove(atom_group, chosen)
                        cycle2 == Remove(ring.cycle_atom_group, chosen)
                        positioned2 ==
                            residue_atoms_with_positions_set \cup {chosen}
                        ring2 ==
                            IF cycle2 # <<>>
                            THEN [ring EXCEPT
                                    !.cycle_atom_group = cycle2,
                                    !.unplaced_atoms[ring.idx] = cycle2,
                                    !.placed_atoms_in_cycle = @ \cup {chosen}]
                            ELSE NextCycle(residue, ring.membership,
                                     [ring.unplaced_atoms EXCEPT ![ring.idx] = cycle2],
                                     ring.idx + 1, positioned2)
                    IN  /\ IF g = "plan_heavy"
                           THEN /\ heavy' = group2
                                /\ heavy_atoms_torsions' =
                                     Append(heavy_atoms_torsions, random_torsion)
                                /\ heavy_logp' =
                                     Append(heavy_logp, LogOfChoice(Len(filtered)))
                                /\ UNCHANGED << hydrogens, hydrogen_atoms_torsions,
                                                hydrogen_logp >>
                           ELSE /\ hydrogens' = group2
                                /\ hydrogen_atoms_torsions' =
                                     Append(hydrogen_atoms_torsions, random_torsion)
                                /\ hydrogen_logp' =
                                     Append(hydrogen_logp, LogOfChoice(Len(filtered)))
                                /\ UNCHANGED << heavy, heavy_atoms_torsions,
                                                heavy_logp >>
                        /\ atoms_with_positions_set' =
                             atoms_with_positions_set \cup {chosen}
                        /\ residue_atoms_with_positions_set' = positioned2
                        /\ connectivity_graph' =
                             add_torsion_connectivity(residue, connectivity_graph,
                                                      random_torsion)
                        /\ ring' = ring2
                        /\ drawn_from' = Append(drawn_from, filtered)
                        /\ UNCHANGED error
                        /\ pc' = PcAfter(g, group2, ring2,
                                     IF g = "plan_heavy" THEN hydrogens ELSE <<>>)
    /\ UNCHANGED << residue, direction >>
    /\ UNCHANGED << enginevars, scoring, engine >>

-----------------------------------------------------------------------------
(* NetworkXProposalOrder.determine_proposal_order *)

\* the loop asserting that no atom is placed before its reference atoms
RECURSIVE ReferencesPositioned(_, _)
ReferencesPositioned(proposal_order, positioned) ==
    IF proposal_order = <<>> THEN TRUE
    ELSE LET torsion == Head(proposal_order)
         IN  /\ {torsion[2], torsion[3], torsion[4]} \subseteq positioned
             /\ ReferencesPositioned(Tail(proposal_order),
                                     positioned \cup {torsion[1]})

MappedAtoms(res) == (0..(res.n - 1)) \ res.new

\* every check made between the two planning calls and the return
OrderAccepted(proposal_order, logps, res) ==
    /\ Len(proposal_order) # 0
    /\ ReferencesPositioned(proposal_order, MappedAtoms(res))
    /\ logps # <<>>
    /\ Len(logps) = Len(proposal_order)

-----------------------------------------------------------------------------
(* Discretisation and fixed-point arithmetic                                *)
(*                                                                         *)
(* Lengths, angles and torsions live on integer grids: a bin of a          *)
(* discretised distribution is 2*SubBin grid points wide, so that bin      *)
(* midpoints are grid points.  Energies are integers in units of kT*ln 2   *)
(* (beta is folded in); log-probabilities are in units of 1/1000 of that.  *)

\* _n_bond_divisions, _n_angle_divisions, _n_torsion_divisions
NBondDivisions == 2

NAngleDivisions == 2

NTorsionDivisions == 3

\* half the number of grid points of one bin
SubBin == 2

LOG_ZERO == -1000000

\* the standard deviation of a bond with unit force constant
LenScale == NBondDivisions * SubBin

\* the standard deviation of an angle with unit force constant
AngScale == SubBin

\* EPSILON of _angle_log_pmf and np.pi on the angle grid
EPSILON == 1

Pi == NAngleDivisions * 2 * SubBin + 2 * EPSILON

\* 2*np.pi on the torsion grid
TwoPi == NTorsionDivisions * 2 * SubBin

Abs(x) == IF x < 0 THEN 0 - x ELSE x

Max(a, b) == IF a >= b THEN a ELSE b

ISqrt(k) == CHOOSE s \in 1..k : s * s <= k /\ (s + 1) * (s + 1) > k

\* 2^(-d/1000) for d >= 0, scaled by 2^16; the inverse of Log
Exp2Neg(d) ==
    LET e == (d + 999) \div 1000
        f == 1000 * e - d
    IN  IF e > 16 THEN 0
        ELSE ((65536 \div Pow2(e)) * (1000 + f)) \div 1000

MaxOf(a) ==
    CHOOSE m \in SeqToSet(a) : \A x \in SeqToSet(a) : x <= m

RECURSIVE SumExp(_, _)
SumExp(a, m) ==
    IF a = <<>> THEN 0 ELSE Exp2Neg(m - Head(a)) + SumExp(Tail(a), m)

\* scipy.special.logsumexp
logsumexp(a) ==
    LET m == MaxOf(a) IN m + Log(SumExp(a, m)) - 16000

\* np.sin on the angle grid (positive strictly between 0 and Pi)
Sin(theta) == theta * (Pi - theta)

\* reduce a torsion to the domain [-pi, +pi)
Wrap(phi) == ((phi + TwoPi \div 2) % TwoPi) - TwoPi \div 2

-----------------------------------------------------------------------------
(* coordinate_numba: positions and internal coordinates                    *)
(*                                                                         *)
(* A position is a record [x, y, z].  The bond length of a pair is the     *)
(* difference of the x coordinates, the angle of a triple the difference   *)
(* of the y coordinates of its end atoms, the dihedral of a quadruple the  *)
(* wrapped difference of the z coordinates of its end atoms.               *)

BondLength(p, q) == Abs(p.x - q.x)

AngleOf(p, q) == Abs(p.y - q.y)

Dihedral(p, q) == Wrap(p.z - q.z)

internal_to_cartesian(bond_position, angle_position, torsion_position, r, theta, phi) ==
    [x |-> bond_position.x + r, y |-> angle_position.y + theta,
     z |-> torsion_position.z + phi]

cartesian_to_internal(atom_position, bond_position, angle_position, torsion_position) ==
    [r |-> BondLength(atom_position, bond_position),
     theta |-> AngleOf(atom_position, angle_position),
     phi |-> Dihedral(atom_position, torsion_position)]

\* detJ = np.abs(r**2*np.sin(theta))
DetJ(r, theta) == Abs(r * r * Sin(theta))

-----------------------------------------------------------------------------
(* The reference system and parmed structure of a residue (input): one     *)
(* term per unconstrained bond, per angle, per proper torsion and per 1-4  *)
(* pair of the residue graph, and the residue's terms of other forces.     *)
(* A term is [kind, p, params]: p its particles, params its parameters     *)
(*   bond      <<r0, K, 0>>           angle  <<theta0, K, 0>>              *)
(*   torsion   <<periodicity, phase, k>>                                   *)
(*   exception <<chargeprod, sigma, epsilon>>                              *)

Atoms(res) == 0..(res.n - 1)

RECURSIVE TupleKey(_)
TupleKey(t) ==
    IF t = <<>> THEN 0
    ELSE 8 * TupleKey(SubSeq(t, 1, Len(t) - 1)) + t[Len(t)]

\* the members of a set of tuples of atoms, in lexicographic order
RECURSIVE OrderTuples(_)
OrderTuples(S) ==
    IF S = {} THEN <<>>
    ELSE LET m == CHOOSE t \in S : \A u \in S : TupleKey(t) <= TupleKey(u)
         IN  <<m>> \o OrderTuples(S \ {m})

\* bond.type of the parmed bond between two atoms
BondType(res, a, b) ==
    [typed |-> {a, b} \notin res.constraints \cup res.no_params,
     req |-> IF {a, b} \cap res.hyd # {} THEN 2 * LenScale ELSE 7 * LenScale,
     k |-> 1]

\* angle.type of the parmed angle three atoms share; found is FALSE when
\* the intersection of their angle lists is empty
AngleType(res, a, b, c) ==
    [found |-> {a, b, c} \notin res.no_angle, theteq |-> Pi \div 2, k |-> 1]

RECURSIVE BondTermsFrom(_, _)
BondTermsFrom(res, i) ==
    IF i > Len(res.bonds) THEN <<>>
    ELSE LET a == res.bonds[i][1]
             b == res.bonds[i][2]
             type == BondType(res, a, b)
         IN  (IF type.typed
              THEN << [kind |-> "bond", p |-> <<a, b>>,
                       params |-> <<type.req, type.k, 0>>] >>
              ELSE <<>>) \o BondTermsFrom(res, i + 1)

HarmonicBondForce(res) == BondTermsFrom(res, 1)

AngleTriples(res) ==
    { t \in Atoms(res) \X Atoms(res) \X Atoms(res) :
        /\ t[1] < t[3]
        /\ HasEdge(res.bonds, t[1], t[2])
        /\ HasEdge(res.bonds, t[2], t[3])
        /\ {t[1], t[2], t[3]} \notin res.no_angle }

HarmonicAngleForce(res) ==
    LET ts == OrderTuples(AngleTriples(res))
    IN  [i \in 1..Len(ts) |->
           [kind |-> "angle", p |-> ts[i],
            params |-> << AngleType(res, ts[i][1], ts[i][2], ts[i][3]).theteq,
                          AngleType(res, ts[i][1], ts[i][2], ts[i][3]).k, 0 >>]]

TorsionQuads(res) ==
    { t \in Atoms(res) \X Atoms(res) \X Atoms(res) \X Atoms(res) :
        /\ t[1] < t[4]
        /\ t[1] # t[3]
        /\ t[2] # t[4]
        /\ HasEdge(res.bonds, t[1], t[2])
        /\ HasEdge(res.bonds, t[2], t[3])
        /\ HasEdge(res.bonds, t[3], t[4]) }

PeriodicTorsionForce(res) ==
    LET ts == OrderTuples(TorsionQuads(res))
    IN  [i \in 1..Len(ts) |->
           [kind |-> "torsion", p |-> ts[i], params |-> <<1, 0, 6>>]]

\* the pairs three bonds apart (and no closer)
OneFourPairs(res) ==
    { t \in Atoms(res) \X Atoms(res) :
        /\ t[1] < t[2]
        /\ ~HasEdge(res.bonds, t[1], t[2])
        /\ ~\E b \in Atoms(res) :
              HasEdge(res.bonds, t[1], b) /\ HasEdge(res.bonds, b, t[2])
        /\ \E q \in TorsionQuads(res) : q[1] = t[1] /\ q[4] = t[2] }

\* the nonzero exceptions of the NonbondedForce
NonbondedExceptions(res) ==
    LET ts == OrderTuples(OneFourPairs(res) \cup res.close_exceptions)
    IN  [i \in 1..Len(ts) |->
           [kind |-> "exception", p |-> ts[i], params |-> <<2, 0, 0>>]]

OtherForces(res) ==
    [i \in 1..Len(res.other) |->
       [kind |-> "other", p |-> res.other[i].p, params |-> res.other[i].params]]

-----------------------------------------------------------------------------
(* Potential energy of a term and of a list of terms (OpenMM getState)     *)

\* 1 + cos(x), in units of 1/(TwoPi \div 2)
OnePlusCos(x) == 2 * (TwoPi \div 2 - Abs(Wrap(x)))

TermEnergy(t, positions) ==
    LET q == [i \in 1..Len(t.p) |-> positions[t.p[i]]]
    IN  CASE t.kind = "bond" ->
               \* (K/2)*(r-r0)^2
               (t.params[2] * (BondLength(q[1], q[2]) - t.params[1])
                            * (BondLength(q[1], q[2]) - t.params[1]))
                 \div (2 * LenScale * LenScale)
          [] t.kind = "angle" ->
               \* (K/2)*(theta-theta0)^2
               (t.params[2] * (AngleOf(q[1], q[3]) - t.params[1])
                            * (AngleOf(q[1], q[3]) - t.params[1]))
                 \div (2 * AngScale * AngScale)
          [] t.kind = "torsion" ->
               \* k*(1+cos(periodicity*theta-phase))
               (t.params[3] * OnePlusCos(t.params[1] * Dihedral(q[1], q[4])
                                         - t.params[2]))
                 \div (TwoPi \div 2)
          [] t.kind = "exception" ->
               \* ONE_4PI_EPS0*chargeprod/r (the Lennard-Jones part is zero)
               (t.params[1] * 4 * LenScale)
                 \div (1 + BondLength(q[1], q[2]) + AngleOf(q[1], q[2])
                         + Abs(Dihedral(q[1], q[2])))
          [] OTHER ->
               t.params[1] + t.params[2] * BondLength(q[1], q[2])

RECURSIVE PotentialEnergy(_, _)
PotentialEnergy(terms, positions) ==
    IF terms = <<>> THEN 0
    ELSE TermEnergy(Head(terms), positions)
         + PotentialEnergy(Tail(terms), positions)

-----------------------------------------------------------------------------
(* GeometrySystemGenerator (use_sterics = False, use_14_nonbondeds = True, *)
(* add_extra_torsions = True)                                              *)

Reversed(t) == [i \in 1..Len(t) |-> t[Len(t) + 1 - i]]

IndexOf(s, x) == CHOOSE i \in 1..Len(s) : s[i] = x /\ \A j \in 1..(i - 1) : s[j] # x

growth_indices_of(order) ==
    [i \in 1..Len(order) |-> order[i][1]]

\* the smallest position among the atoms of the term instead of the largest
_calculate_growth_idx_min(particle_indices, growth_indices) ==
    LET new_atoms_in_force ==
            SeqToSet(particle_indices) \cap SeqToSet(growth_indices)
        new_atom_growth_order ==
            { IndexOf(growth_indices, atom_idx) : atom_idx \in new_atoms_in_force }
    IN  IF new_atoms_in_force = {} THEN 0
        ELSE CHOOSE m \in new_atom_growth_order :
                 \A x \in new_atom_growth_order : x >= m

_calculate_growth_idx(particle_indices, growth_indices) ==
    LET new_atoms_in_force ==
            SeqToSet(particle_indices) \cap SeqToSet(growth_indices)
        new_atom_growth_order ==
            { IndexOf(growth_indices, atom_idx) : atom_idx \in new_atoms_in_force }
    IN  IF new_atoms_in_force = {} THEN 0
        ELSE CHOOSE m \in new_atom_growth_order :
                 \A x \in new_atom_growth_order : x <= m

\* a reference term with the growth index the generator computes for it
WithGrowthIdx(t, growth_indices) ==
    [kind |-> t.kind, p |-> t.p, params |-> t.params,
     growth_idx |-> _calculate_growth_idx(t.p, growth_indices)]

Indexed(force, growth_indices) ==
    [i \in 1..Len(force) |-> WithGrowthIdx(force[i], growth_indices)]

\* self.omitted_edges: the reference edges the connectivity graph lacks
omitted_edges(res, cg) ==
    SelectSeq(res.bonds, LAMBDA e : ~ConnHasEdge(cg, e[1], e[2]))

\* a test that looks for the edge in one direction only
EdgeOmittedAsListed(res, cg, a, b) ==
    <<a, b>> \in SeqToSet(omitted_edges(res, cg))

EdgeOmitted(res, cg, a, b) ==
    <<a, b>> \in SeqToSet(omitted_edges(res, cg))
    \/ <<b, a>> \in SeqToSet(omitted_edges(res, cg))

AnyEdgeOmitted(res, cg, p) ==
    \E i \in 1..(Len(p) - 1) : EdgeOmitted(res, cg, p[i], p[i + 1])

\* a comparison with the torsion in one direction only
PartOfTorsionAsListed(p, order) ==
    \E i \in 1..Len(order) : p = SubSeq(order[i], 1, 3)

\* "[p1, p2, p3] == torsion[:3] or [p3, p2, p1] == torsion[:3]" for some
\* torsion of the order
PartOfTorsion(p, order) ==
    \E i \in 1..Len(order) :
        \/ p = SubSeq(order[i], 1, 3)
        \/ Reversed(p) = SubSeq(order[i], 1, 3)

GrowthBonds(res, order, cg) ==
    SelectSeq(Indexed(HarmonicBondForce(res), growth_indices_of(order)),
              LAMBDA t : t.growth_idx > 0 /\ ConnHasEdge(cg, t.p[1], t.p[2]))

OmittedBonds(res, order, cg) ==
    SelectSeq(Indexed(HarmonicBondForce(res), growth_indices_of(order)),
              LAMBDA t : t.growth_idx > 0 /\ ~ConnHasEdge(cg, t.p[1], t.p[2]))

GrowthAngles(res, order, cg, neglect) ==
    SelectSeq(Indexed(HarmonicAngleForce(res), growth_indices_of(order)),
              LAMBDA t : /\ t.growth_idx > 0
                         /\ IF neglect
                            THEN PartOfTorsion(t.p, order)
                            ELSE ~AnyEdgeOmitted(res, cg, t.p))

OmittedAngles(res, order, cg, neglect) ==
    SelectSeq(Indexed(HarmonicAngleForce(res), growth_indices_of(order)),
              LAMBDA t : /\ t.growth_idx > 0
                         /\ ~neglect
                         /\ AnyEdgeOmitted(res, cg, t.p))

\* neglected_angle_term_indices (indices into the HarmonicAngleForce)
NeglectedAngleTerms(res, order, neglect) ==
    LET force == Indexed(HarmonicAngleForce(res), growth_indices_of(order))
    IN  SortedSeq({ i \in 1..Len(force) :
                      /\ force[i].growth_idx > 0
                      /\ neglect
                      /\ ~PartOfTorsion(force[i].p, order) })

GrowthTorsions(res, order, cg) ==
    SelectSeq(Indexed(PeriodicTorsionForce(res), growth_indices_of(order)),
              LAMBDA t : t.growth_idx > 0 /\ ~AnyEdgeOmitted(res, cg, t.p))

OmittedTorsions(res, order, cg) ==
    SelectSeq(Indexed(PeriodicTorsionForce(res), growth_indices_of(order)),
              LAMBDA t : t.growth_idx > 0 /\ AnyEdgeOmitted(res, cg, t.p))

\* all_simple_paths(connectivity_graph, p1, p2, cutoff=3)
ConnectivityPaths(cg, p1, p2) ==
    { <<p1, p2>> : x \in { y \in {0} : ConnHasEdge(cg, p1, p2) } }
    \cup { <<p1, b, p2>> : b \in { y \in cg.nodes \ {p1, p2} :
               ConnHasEdge(cg, p1, y) /\ ConnHasEdge(cg, y, p2) } }
    \cup { <<p1, bc[1], bc[2], p2>> : bc \in
             { y \in (cg.nodes \ {p1, p2}) \X (cg.nodes \ {p1, p2}) :
                 /\ y[1] # y[2]
                 /\ ConnHasEdge(cg, p1, y[1])
                 /\ ConnHasEdge(cg, y[1], y[2])
                 /\ ConnHasEdge(cg, y[2], p2) } }

\* "(e[2], e[3])" of a path of fewer than four atoms raises IndexError
ExceptionPathError(res, order, cg) ==
    \E t \in SeqToSet(Indexed(NonbondedExceptions(res), growth_indices_of(order))) :
        /\ t.growth_idx > 0
        /\ \E e \in ConnectivityPaths(cg, t.p[1], t.p[2]) : Len(e) < 4

commit_to_omitted(res, cg, t) ==
    LET _possible_edges == ConnectivityPaths(cg, t.p[1], t.p[2])
    IN  \/ _possible_edges = {}
        \/ \E e \in _possible_edges : AnyEdgeOmitted(res, cg, e)

GrowthExceptions(res, order, cg) ==
    SelectSeq(Indexed(NonbondedExceptions(res), growth_indices_of(order)),
              LAMBDA t : t.growth_idx > 0 /\ ~commit_to_omitted(res, cg, t))

OmittedExceptions(res, order, cg) ==
    SelectSeq(Indexed(NonbondedExceptions(res), growth_indices_of(order)),
              LAMBDA t : t.growth_idx > 0 /\ commit_to_omitted(res, cg, t))

\* all four atoms of the torsion are in one ring
SameRing(res, torsion) ==
    \E c \in 1..Len(res.cycles) : SeqToSet(torsion) \subseteq res.cycles[c]

\* _determine_extra_terms: "for growth_idx, torsion in enumerate(order)"
RECURSIVE ExtraTorsionsFrom(_, _, _)
ExtraTorsionsFrom(res, order, i) ==
    IF i > Len(order) THEN <<>>
    ELSE (IF SameRing(res, order[i])
          THEN << [kind |-> "torsion", p |-> order[i],
                   params |-> <<1, TwoPi \div 2, 120>>,
                   growth_idx |-> i - 1] >>
          ELSE <<>>) \o ExtraTorsionsFrom(res, order, i + 1)

ExtraTorsions(res, order) == ExtraTorsionsFrom(res, order, 1)

special_terms_of(res, order, cg, neglect) ==
    [omitted_bonds |-> OmittedBonds(res, order, cg),
     omitted_angles |-> OmittedAngles(res, order, cg, neglect),
     omitted_torsions |-> OmittedTorsions(res, order, cg),
     omitted_14s |-> OmittedExceptions(res, order, cg),
     extra_torsions |-> ExtraTorsions(res, order),
     extra_angles |-> <<>>]

\* the growth system: the gated copies of the reference terms that touch a
\* new atom, and the ring-biasing torsions
GrowthSystem(res, order, cg, neglect) ==
    GrowthBonds(res, order, cg)
    \o GrowthAngles(res, order, cg, neglect)
    \o GrowthTorsions(res, order, cg)
    \o ExtraTorsions(res, order)
    \o GrowthExceptions(res, order, cg)

\* a core system that keeps the strength of every term
KeepStrength(t) == [kind |-> t.kind, p |-> t.p, params |-> t.params]

\* K*0.0
ZeroStrength(t) ==
    [kind |-> t.kind, p |-> t.p,
     params |-> IF t.kind = "torsion" THEN << t.params[1], t.params[2], 0 >>
                ELSE IF t.kind = "exception" THEN << 0, t.params[2], 0 >>
                ELSE << t.params[1], 0, t.params[3] >>]

\* _atoms_with_positions_system: the reference system with the strength of
\* every bond, angle and torsion that touches a new atom set to zero and
\* the NonbondedForce removed
AtomsWithPositionsSystem(res, order) ==
    LET valence == HarmonicBondForce(res) \o HarmonicAngleForce(res)
                   \o PeriodicTorsionForce(res)
    IN  [i \in 1..Len(valence) |->
           IF _calculate_growth_idx(valence[i].p, growth_indices_of(order)) > 0
           THEN ZeroStrength(valence[i]) ELSE valence[i]]
        \o OtherForces(res)

\* a gate that opens one stage late
TermActiveLate(t, stage) == stage > t.growth_idx

\* select(step(stage + 0.1 - growth_idx), E, 0)
TermActive(t, stage) == stage >= t.growth_idx

GrowthEnergy(system, stage, positions) ==
    PotentialEnergy(SelectSeq(system,
                              LAMBDA t : TermActive(t, stage)),
                    positions)

-----------------------------------------------------------------------------
(* FFAllAngleGeometryEngine: the discretised bond, angle and torsion       *)
(* distributions                                                           *)

\* sigma_r = sqrt(1/(beta*k)), sigma_theta = sqrt(1/(beta*k))
sigma_r(k) == LenScale \div ISqrt(k)

sigma_theta(k) == AngScale \div ISqrt(k)

\* a function on 1..n as a tuple of its values
Tuple(f) == f \o <<>>

\* np.linspace(lower, upper, num=n_divisions, retstep=True, endpoint=False)
linspace(lower_bound, upper_bound, n_divisions) ==
    LET bin_width == (upper_bound - lower_bound) \div n_divisions
    IN  [edges |-> Tuple([i \in 1..n_divisions |->
                              lower_bound + (i - 1) * bin_width]),
         bin_width |-> bin_width]

_bond_log_pmf(bond, n_divisions) ==
    LET r0 == bond.req
        sigma == sigma_r(bond.k)
        grid == linspace(Max(0, r0 - 6 * sigma), r0 + 6 * sigma, n_divisions)
        mid == Tuple([i \in 1..n_divisions |->
                        grid.edges[i] + grid.bin_width \div 2])
        log_q == Tuple([i \in 1..n_divisions |->
                    2 * Log(mid[i])
                    - (500 * (mid[i] - r0) * (mid[i] - r0)) \div (sigma * sigma)])
        norm == logsumexp(log_q)
    IN  [r_i |-> grid.edges,
         log_p_i |-> Tuple([i \in 1..n_divisions |-> log_q[i] - norm]),
         bin_width |-> grid.bin_width]

\* a scoring whose support ends at the last left bin edge
_bond_logp_short_support(r, bond, n_divisions) ==
    LET pmf == _bond_log_pmf(bond, n_divisions)
    IN  IF r < pmf.r_i[1] \/ r >= pmf.r_i[n_divisions]
        THEN LOG_ZERO
        ELSE LET index == (r - pmf.r_i[1]) \div pmf.bin_width
             IN  pmf.log_p_i[index + 1] - Log(pmf.bin_width)

_bond_logp(r, bond, n_divisions) ==
    LET pmf == _bond_log_pmf(bond, n_divisions)
    IN  IF r < pmf.r_i[1] \/ r >= pmf.r_i[n_divisions] + pmf.bin_width
        THEN LOG_ZERO
        ELSE LET index == (r - pmf.r_i[1]) \div pmf.bin_width
             IN  pmf.log_p_i[index + 1] - Log(pmf.bin_width)

\* _propose_bond, given the drawn bin and the offset inside it: r uniform
\* in the bin (its "assert (r > 0)" is taken where it is called)
_propose_bond(bond, n_divisions, index, offset) ==
    _bond_log_pmf(bond, n_divisions).r_i[index] + offset

_angle_log_pmf(angle, n_divisions) ==
    LET theta0 == angle.theteq
        sigma == sigma_theta(angle.k)
        grid == linspace(EPSILON, Pi - EPSILON, n_divisions)
        mid == Tuple([i \in 1..n_divisions |->
                        grid.edges[i] + grid.bin_width \div 2])
        log_q == Tuple([i \in 1..n_divisions |->
                    Log(Sin(mid[i]))
                    - (500 * (mid[i] - theta0) * (mid[i] - theta0))
                        \div (sigma * sigma)])
        norm == logsumexp(log_q)
    IN  [theta_i |-> grid.edges,
         log_p_i |-> Tuple([i \in 1..n_divisions |-> log_q[i] - norm]),
         bin_width |-> grid.bin_width]

\* a scoring that gives an angle outside the support the density of the
\* nearest bin
_angle_logp_nearest_bin(theta, angle, n_divisions) ==
    LET pmf == _angle_log_pmf(angle, n_divisions)
        index == IF theta < pmf.theta_i[1] THEN 0
                 ELSE IF theta >= pmf.theta_i[n_divisions] + pmf.bin_width
                      THEN n_divisions - 1
                      ELSE (theta - pmf.theta_i[1]) \div pmf.bin_width
    IN  pmf.log_p_i[index + 1] - Log(pmf.bin_width)

_angle_logp(theta, angle, n_divisions) ==
    LET pmf == _angle_log_pmf(angle, n_divisions)
    IN  IF theta < pmf.theta_i[1]
           \/ theta >= pmf.theta_i[n_divisions] + pmf.bin_width
        THEN LOG_ZERO
        ELSE LET index == (theta - pmf.theta_i[1]) \div pmf.bin_width
             IN  pmf.log_p_i[index + 1] - Log(pmf.bin_width)

\* _propose_angle, given the drawn bin and the offset inside it
_propose_angle(angle, n_divisions, index, offset) ==
    _angle_log_pmf(angle, n_divisions).theta_i[index] + offset

\* a potential energy that is not a number
NaN == 2000000000

\* -np.inf
MinusInfinity == -2000000000

\* a scan that fails as soon as one energy is not a number
AnyNaN(energies) == \E i \in 1..Len(energies) : energies[i] = NaN

\* "np.sum(np.isnan(logq)) == n_divisions"
AllNaN(energies) == \A i \in 1..Len(energies) : energies[i] = NaN

\* the normalised torsion distribution of a list of scanned energies:
\* logq = -beta*potential_energy; logq[np.isnan(logq)] = -np.inf;
\* logp_torsions = logq - logsumexp(logq), where exp(-inf) adds nothing
\* to the sum; all_nan tells that the exception of the NaN test is raised
TorsionPmfOf(energies) ==
    LET n_divisions == Len(energies)
        grid == linspace(0 - TwoPi \div 2, TwoPi \div 2, n_divisions)
        all_nan == AllNaN(energies)
        log_q == Tuple([i \in 1..n_divisions |->
                          IF energies[i] = NaN THEN MinusInfinity
                          ELSE 0 - 1000 * energies[i]])
        norm == IF all_nan THEN 0
                ELSE logsumexp(SelectSeq(log_q, LAMBDA q : q # MinusInfinity))
    IN  [phis |-> grid.edges,
         logp_torsions |-> Tuple([i \in 1..n_divisions |->
                                    IF log_q[i] = MinusInfinity
                                    THEN MinusInfinity ELSE log_q[i] - norm]),
         bin_width |-> grid.bin_width,
         all_nan |-> all_nan]

\* _torsion_scan and the energy loop of _torsion_log_pmf
ScanEnergies(system, stage, torsion_atom_indices, positions, r, theta, n_divisions) ==
    LET grid == linspace(0 - TwoPi \div 2, TwoPi \div 2, n_divisions)
        active == SelectSeq(system, LAMBDA t : TermActive(t, stage))
    IN  Tuple([i \in 1..n_divisions |->
           PotentialEnergy(active,
               [positions EXCEPT ![torsion_atom_indices[1]] =
                   internal_to_cartesian(positions[torsion_atom_indices[2]],
                                         positions[torsion_atom_indices[3]],
                                         positions[torsion_atom_indices[4]],
                                         r, theta, grid.edges[i])])])

_torsion_log_pmf(system, stage, torsion_atom_indices, positions, r, theta, n_divisions) ==
    TorsionPmfOf(ScanEnergies(system, stage, torsion_atom_indices,
                              positions, r, theta, n_divisions))

\* index = np.argmin(np.abs(phi - phis))
ArgminAbs(phi, phis) ==
    CHOOSE i \in 1..Len(phis) :
        /\ \A j \in 1..Len(phis) : Abs(phi - phis[i]) <= Abs(phi - phis[j])
        /\ \A j \in 1..(i - 1) : Abs(phi - phis[j]) > Abs(phi - phis[i])

\* the scoring step of _torsion_logp, given the distribution
TorsionLogpOf(pmf, phi) ==
    LET logp == pmf.logp_torsions[ArgminAbs(phi, pmf.phis)]
    IN  IF logp = MinusInfinity THEN MinusInfinity
        ELSE logp - Log(pmf.bin_width)

_torsion_logp(system, stage, torsion_atom_indices, positions, r, theta, phi, n_divisions) ==
    TorsionLogpOf(_torsion_log_pmf(system, stage,
                                   torsion_atom_indices, positions, r, theta,
                                   n_divisions), phi)

\* the sampling step of _propose_torsion, given the distribution and the
\* drawn bin and offset: phi uniform in the bin, logp its log-density
ProposeTorsionOf(pmf, index, offset) ==
    [phi |-> pmf.phis[index] + offset,
     logp |-> IF pmf.logp_torsions[index] = MinusInfinity THEN MinusInfinity
              ELSE pmf.logp_torsions[index] - Log(pmf.bin_width)]

-----------------------------------------------------------------------------
(* FFAllAngleGeometryEngine._define_no_nb_system                           *)

TermParticles(terms) ==
    { terms[i].p : i \in 1..Len(terms) }
    \cup { Reversed(terms[i].p) : i \in 1..Len(terms) }

AsReferenceTerm(t) == [kind |-> t.kind, p |-> t.p, params |-> t.params]

_define_no_nb_system(res, neglected, atom_proposal_order, special) ==
    LET bonds == HarmonicBondForce(res)
        angles == HarmonicAngleForce(res)
        torsions == PeriodicTorsionForce(res)
                    \o [i \in 1..Len(special.extra_torsions) |->
                          AsReferenceTerm(special.extra_torsions[i])]
        exceptions == NonbondedExceptions(res)
    IN  [i \in 1..Len(bonds) |->
           IF bonds[i].p \in TermParticles(special.omitted_bonds)
           THEN ZeroStrength(bonds[i]) ELSE bonds[i]]
        \o [i \in 1..Len(angles) |->
              IF \/ angles[i].p \in TermParticles(special.omitted_angles)
                 \/ i \in SeqToSet(neglected)
              THEN ZeroStrength(angles[i]) ELSE angles[i]]
        \o [i \in 1..Len(torsions) |->
              IF torsions[i].p \in TermParticles(special.omitted_torsions)
              THEN ZeroStrength(torsions[i]) ELSE torsions[i]]
        \o [i \in 1..Len(exceptions) |->
              IF \/ SeqToSet(atom_proposal_order)
                      \cap SeqToSet(exceptions[i].p) = {}
                 \/ exceptions[i].p \in
                      { special.omitted_14s[j].p :
                          j \in 1..Len(special.omitted_14s) }
              THEN ZeroStrength(exceptions[i]) ELSE exceptions[i]]
        \o OtherForces(res)

\* a proposal that makes no assertion about the energies
EnergyMismatchIgnored(added, final) == TRUE

\* the assertion on energy_mismatch_ratio =
\* (atoms_with_positions_reduced_potential + reduced_potential_energy)
\*   / final_context_reduced_potential, with threshold 1e-3
EnergyMismatchAccepted(added, final) ==
    IF final = 0 THEN FALSE
    ELSE IF final > 0
         THEN 1000 * added < 1001 * final /\ 1000 * added > 999 * final
         ELSE 1000 * added > 1001 * final /\ 1000 * added < 999 * final

-----------------------------------------------------------------------------
(* Inputs of a proposal: positions and random draws *)

\* positions of the atoms that are mapped between the two topologies
CorePosition(a) == [x |-> a * LenScale, y |-> a, z |-> a]

\* positions a unique old atom may have when a reverse proposal is scored:
\* one near its neighbours, one far from them
OldAtomPositions(a) ==
    { [x |-> (a + 3) * LenScale, y |-> a + SubBin, z |-> a + 1],
      [x |-> (a + 20) * LenScale, y |-> a + 2 * Pi, z |-> a + SubBin + 1] }

OldPositionArrays(res) ==
    { [a \in Atoms(res) |-> IF a \in res.new THEN g[a] ELSE CorePosition(a)] :
        g \in { h \in [res.new -> UNION { OldAtomPositions(a) : a \in res.new }] :
                  \A a \in res.new : h[a] \in OldAtomPositions(a) } }

\* np.random.random: what _copy_positions leaves at the unplaced atoms
RandomArrays(res) ==
    { [a \in res.new |-> [x |-> 0, y |-> a, z |-> a]],
      [a \in res.new |-> [x |-> a * LenScale + 1, y |-> 1, z |-> 1]] }

\* the draws (bin, offset inside the bin) the random source makes during
\* a proposal: the lowest point of the first bin and the highest point of
\* the last one
EdgeDraws(n_divisions, bin_width) ==
    { <<1, 0>>, <<n_divisions, bin_width - 1>> }

NotScored == [kind |-> "none"]

NoCall == [method |-> "none"]

\* FFAllAngleGeometryEngine.__init__: self.nproposed = 0 and the flag
\* use_sterics; propose_calls counts the calls of propose() made so far
NewEngine(use_sterics) ==
    [use_sterics |-> use_sterics, nproposed |-> 0, propose_calls |-> 0,
     propose_raised |-> 0, reverse_calls |-> 0, last |-> NoCall]

NoSpecialTerms ==
    [omitted_bonds |-> <<>>, omitted_angles |-> <<>>, omitted_torsions |-> <<>>,
     omitted_14s |-> <<>>, extra_torsions |-> <<>>, extra_angles |-> <<>>]

EngineInit(res, dir) ==
    /\ neglect_angles \in BOOLEAN
    /\ error = "none"
    /\ torsion_proposal_order = <<>>
    /\ logp_choice = <<>>
    /\ growth_system = <<>>
    /\ atoms_with_positions_system = <<>>
    /\ special_terms = NoSpecialTerms
    /\ neglected_angle_terms = <<>>
    /\ old_positions \in
         IF dir = "forward"
         THEN { [a \in MappedAtoms(res) |-> CorePosition(a)] }
         ELSE OldPositionArrays(res)
    /\ new_positions =
         IF dir = "forward" THEN <<>>
         ELSE [a \in MappedAtoms(res) |-> CorePosition(a)]
    /\ growth_stage = 0
    /\ growth_parameter_value = 0
    /\ atoms_with_positions_reduced_potential = 0
    /\ energy_logger = <<>>
    /\ rjmc_info = <<>>
    /\ logp_proposal = 0
    /\ final_context_reduced_potential = 0

-----------------------------------------------------------------------------
(* NetworkXProposalOrder.determine_proposal_order: the checks and return   *)

DetermineProposalOrderReturn ==
    /\ pc = "plan_done"
    /\ LET proposal_order == heavy_atoms_torsions \o hydrogen_atoms_torsions
           logps == heavy_logp \o hydrogen_logp
       IN  IF OrderAccepted(proposal_order, logps, residue)
           THEN /\ torsion_proposal_order' = proposal_order
                /\ logp_choice' = logps
                /\ pc' = "planned"
                /\ UNCHANGED error
           ELSE /\ pc' = "failed"
                /\ error' = IF Len(proposal_order) = 0 THEN "Exception"
                            ELSE "AssertionError"
                /\ UNCHANGED << torsion_proposal_order, logp_choice >>
    /\ UNCHANGED << residue, direction, heavy, hydrogens,
                    atoms_with_positions_set, residue_atoms_with_positions_set,
                    connectivity_graph, heavy_atoms_torsions, heavy_logp,
                    hydrogen_atoms_torsions, hydrogen_logp, ring, drawn_from >>
    /\ UNCHANGED << scoring, engine >>
    /\ UNCHANGED << neglect_angles, growth_system, atoms_with_positions_system,
                    special_terms, neglected_angle_terms, old_positions,
                    new_positions, growth_stage, growth_parameter_value,
                    atoms_with_positions_reduced_potential, energy_logger,
                    rjmc_info, logp_proposal, final_context_reduced_potential >>

-----------------------------------------------------------------------------
(* FFAllAngleGeometryEngine._logp_propose *)

RECURSIVE SumSeq(_)
SumSeq(a) == IF a = <<>> THEN 0 ELSE Head(a) + SumSeq(Tail(a))

\* _copy_positions: mapped atoms copied, the others random
_copy_positions(res, current_positions, random) ==
    [a \in Atoms(res) |->
       IF a \in MappedAtoms(res) THEN current_positions[a] ELSE random[a]]

_get_bond_constraint(res, a, b) ==
    [defined |-> {a, b} \in res.constraints, length |-> 2 * LenScale]

\* from the call of the planner's result to the start of the placement
\* loop: growth system, contexts, the energy before placement
SetUpGrowth ==
    /\ pc = "planned"
    /\ \E random \in IF direction = "forward"
                     THEN RandomArrays(residue) ELSE { <<>> } :
         LET positions == IF direction = "forward"
                          THEN _copy_positions(residue, old_positions, random)
                          ELSE new_positions
         IN  IF ExceptionPathError(residue, torsion_proposal_order,
                                   connectivity_graph)
             THEN /\ pc' = "failed"
                  /\ error' = "IndexError"
                  /\ UNCHANGED << new_positions, growth_system,
                         atoms_with_positions_system, special_terms,
                         neglected_angle_terms, logp_proposal, growth_stage,
                         growth_parameter_value,
                         atoms_with_positions_reduced_potential >>
             ELSE /\ new_positions' = positions
                  /\ growth_system' =
                       GrowthSystem(residue, torsion_proposal_order,
                                    connectivity_graph, neglect_angles)
                  /\ atoms_with_positions_system' =
                       AtomsWithPositionsSystem(residue, torsion_proposal_order)
                  /\ special_terms' =
                       special_terms_of(residue, torsion_proposal_order,
                                        connectivity_graph, neglect_angles)
                  /\ neglected_angle_terms' =
                       NeglectedAngleTerms(residue, torsion_proposal_order,
                                           neglect_angles)
                  /\ logp_proposal' = SumSeq(logp_choice)
                  /\ growth_stage' = Len(torsion_proposal_order) + 1
                  /\ growth_parameter_value' = 1
                  /\ atoms_with_positions_reduced_potential' =
                       PotentialEnergy(
                           AtomsWithPositionsSystem(residue,
                                                    torsion_proposal_order),
                           IF direction = "forward" THEN positions
                           ELSE old_positions)
                  /\ pc' = "place"
                  /\ UNCHANGED error
    /\ UNCHANGED << planvars_but_pc, scoring, engine >>
    /\ UNCHANGED << neglect_angles, torsion_proposal_order, logp_choice,
                    old_positions, energy_logger, rjmc_info,
                    final_context_reduced_potential >>

\* an increment that forgets the previous reduced potential
added_energy_whole(growth_parameter, reduced_potential_energy, logger) ==
    reduced_potential_energy

\* the change in energy from the previous reduced potential
added_energy_of(growth_parameter, reduced_potential_energy, logger) ==
    IF growth_parameter = 1 THEN reduced_potential_energy
    ELSE reduced_potential_energy - Last(logger)

\* an accumulation that leaves the Jacobian out
logp_proposal_plus_no_jacobian(total, logp_r, logp_theta, logp_phi, detJ) ==
    total + logp_r + logp_theta + logp_phi

\* logp_proposal += logp_r + logp_theta + logp_phi - np.log(detJ)
logp_proposal_plus(total, logp_r, logp_theta, logp_phi, detJ) ==
    total + logp_r + logp_theta + logp_phi - Log(detJ)

\* a placement that writes a position in either direction
positions_overwritten(dir, positions, atom, xyz) ==
    [a \in DOMAIN positions \cup {atom} |->
       IF a = atom THEN [x |-> 0, y |-> 0, z |-> 0] ELSE positions[a]]

\* new_positions[atom.idx] = xyz, an assignment of the forward branch only
positions_written(dir, positions, atom, xyz) ==
    IF dir = "forward" THEN [positions EXCEPT ![atom] = xyz] ELSE positions

\* one pass of the placement loop
PlaceAtom ==
    /\ pc = "place"
    /\ LET torsion_atom_indices == torsion_proposal_order[growth_parameter_value]
           proposal_prob == logp_choice[growth_parameter_value]
           atom == torsion_atom_indices[1]
           bond_atom == torsion_atom_indices[2]
           angle_atom == torsion_atom_indices[3]
           torsion_atom == torsion_atom_indices[4]
           forward == direction = "forward"
           bond == BondType(residue, atom, bond_atom)
           angle == AngleType(residue, atom, bond_atom, angle_atom)
           bond_pmf == _bond_log_pmf(bond, NBondDivisions)
           angle_pmf == _angle_log_pmf(angle, NAngleDivisions)
           constraint == _get_bond_constraint(residue, atom, bond_atom)
           internal_coordinates ==
               cartesian_to_internal(old_positions[atom], old_positions[bond_atom],
                                     old_positions[angle_atom],
                                     old_positions[torsion_atom])
       IN  \E lowest \in IF forward THEN BOOLEAN ELSE { TRUE },
              torsion_draw \in IF forward
                               THEN EdgeDraws(NTorsionDivisions,
                                              TwoPi \div NTorsionDivisions)
                               ELSE { <<1, 0>> } :
           LET bond_draw == IF lowest THEN <<1, 0>>
                            ELSE <<NBondDivisions, bond_pmf.bin_width - 1>>
               angle_draw == IF lowest THEN <<1, 0>>
                             ELSE <<NAngleDivisions, angle_pmf.bin_width - 1>>
               r == IF ~forward THEN internal_coordinates.r
                    ELSE IF bond.typed
                         THEN _propose_bond(bond, NBondDivisions,
                                            bond_draw[1], bond_draw[2])
                         ELSE constraint.length
               logp_r == IF bond.typed THEN _bond_logp(r, bond, NBondDivisions)
                         ELSE 0
               u_r == IF bond.typed
                      THEN ((r - bond.req) * (r - bond.req))
                             \div (2 * sigma_r(bond.k) * sigma_r(bond.k))
                      ELSE 0
               theta == IF ~forward THEN internal_coordinates.theta
                        ELSE _propose_angle(angle, NAngleDivisions,
                                            angle_draw[1], angle_draw[2])
               logp_theta == _angle_logp(theta, angle, NAngleDivisions)
               u_theta == ((theta - angle.theteq) * (theta - angle.theteq))
                            \div (2 * sigma_theta(angle.k) * sigma_theta(angle.k))
               torsion_pmf ==
                   _torsion_log_pmf(growth_system, growth_parameter_value,
                       torsion_atom_indices,
                       IF forward THEN new_positions ELSE old_positions,
                       r, theta, NTorsionDivisions)
               proposed == ProposeTorsionOf(torsion_pmf, torsion_draw[1],
                                            torsion_draw[2])
               phi == IF forward THEN proposed.phi ELSE internal_coordinates.phi
               logp_phi == IF forward THEN proposed.logp
                           ELSE TorsionLogpOf(torsion_pmf, phi)
               xyz == internal_to_cartesian(new_positions[bond_atom],
                          new_positions[angle_atom], new_positions[torsion_atom],
                          r, theta, phi)
               detJ == DetJ(r, theta)
               placed == IF forward THEN [new_positions EXCEPT ![atom] = xyz]
                         ELSE old_positions
               reduced_potential_energy ==
                   GrowthEnergy(growth_system, growth_parameter_value, placed)
               added_energy ==
                   added_energy_of(growth_parameter_value,
                                   reduced_potential_energy, energy_logger)
           IN  IF forward /\ bond.typed /\ ~(r > 0)
               THEN \* "assert (r > 0)" of _propose_bond
                    /\ pc' = "failed"
                    /\ error' = "AssertionError"
                    /\ growth_stage' = growth_parameter_value
                    /\ UNCHANGED << new_positions, growth_parameter_value,
                                    energy_logger, rjmc_info, logp_proposal >>
               ELSE IF forward /\ ~bond.typed /\ ~constraint.defined
               THEN /\ pc' = "failed"
                    /\ error' = "ValueError"
                    /\ growth_stage' = growth_parameter_value
                    /\ UNCHANGED << new_positions, growth_parameter_value,
                                    energy_logger, rjmc_info, logp_proposal >>
               ELSE IF ~angle.found
               THEN \* the exception of _get_relevant_angle
                    /\ pc' = "failed"
                    /\ error' = "Exception"
                    /\ growth_stage' = growth_parameter_value
                    /\ UNCHANGED << new_positions, growth_parameter_value,
                                    energy_logger, rjmc_info, logp_proposal >>
               ELSE /\ growth_stage' = growth_parameter_value
                    /\ new_positions' =
                         positions_written(direction, new_positions, atom, xyz)
                    /\ rjmc_info' = Append(rjmc_info,
                         [atom_index |-> atom, u_r |-> u_r, u_theta |-> u_theta,
                          r |-> r, theta |-> theta, phi |-> phi,
                          logp_r |-> logp_r, logp_theta |-> logp_theta,
                          logp_phi |-> logp_phi, log_detJ |-> Log(detJ),
                          added_energy |-> added_energy,
                          proposal_prob |-> proposal_prob])
                    /\ logp_proposal' =
                         logp_proposal_plus(logp_proposal, logp_r, logp_theta,
                                            logp_phi, detJ)
                    /\ growth_parameter_value' = growth_parameter_value + 1
                    /\ energy_logger' =
                         Append(energy_logger, reduced_potential_energy)
                    /\ pc' = IF growth_parameter_value
                                  = Len(torsion_proposal_order)
                             THEN "finish" ELSE "place"
                    /\ UNCHANGED error
    /\ UNCHANGED << planvars_but_pc, scoring, engine >>
    /\ UNCHANGED << neglect_angles, torsion_proposal_order, logp_choice,
                    growth_system, atoms_with_positions_system, special_terms,
                    neglected_angle_terms, old_positions,
                    atoms_with_positions_reduced_potential,
                    final_context_reduced_potential >>

\* after the loop: the final system, the energy assertion and the return
FinishProposal ==
    /\ pc = "finish"
    /\ LET _positions == IF direction = "forward" THEN new_positions
                         ELSE old_positions
           final_system ==
               _define_no_nb_system(residue, neglected_angle_terms,
                   growth_indices_of(torsion_proposal_order), special_terms)
           final == PotentialEnergy(final_system, _positions)
           reduced_potential_energy == Last(energy_logger)
       IN  /\ final_context_reduced_potential' = final
           /\ IF EnergyMismatchAccepted(
                    atoms_with_positions_reduced_potential
                    + reduced_potential_energy, final)
              THEN pc' = "done" /\ UNCHANGED error
              ELSE pc' = "failed"
                   /\ error' = IF final = 0 THEN "ZeroDivisionError"
                               ELSE "AssertionError"
    /\ UNCHANGED << planvars_but_pc, scoring, engine >>
    /\ UNCHANGED << neglect_angles, torsion_proposal_order, logp_choice,
                    growth_system, atoms_with_positions_system, special_terms,
                    neglected_angle_terms, old_positions, new_positions,
                    growth_stage, growth_parameter_value,
                    atoms_with_positions_reduced_potential, energy_logger,
                    rjmc_info, logp_proposal >>

-----------------------------------------------------------------------------
(* One proposal, from the construction of the planner to the return *)

vars == << planvars, enginevars, error, scoring, engine >>

Init ==
    \E res \in Residues, dir \in Directions :
        /\ PlannerInit(res, dir) /\ EngineInit(res, dir)
        /\ scoring = NotScored
        /\ engine = NewEngine(FALSE)

\* the two calls of _propose_atoms_in_order: heavy atoms, then hydrogens
PlannerCalls == { "plan_heavy", "plan_hydrogens" }

Next ==
    \/ \E g \in PlannerCalls : ProposeAtom(g)
    \/ \E g \in PlannerCalls : CloseRing(g)
    \/ DetermineProposalOrderReturn
    \/ SetUpGrowth
    \/ PlaceAtom
    \/ FinishProposal

Spec == Init /\ [][Next]_vars

-----------------------------------------------------------------------------
(* The sampling and scoring functions on their own: a value is drawn from  *)
(* a bin of a bond, angle or torsion distribution as the forward direction *)
(* draws it, then scored as the reverse direction scores it.               *)

\* bond and angle parameters, and torsion scans, given to the functions
SampleBonds ==
    { [typed |-> TRUE, req |-> q * LenScale, k |-> k] :
        q \in {2, 7}, k \in {1, 4} }

SampleAngles ==
    { [theteq |-> t, k |-> k] : t \in {Pi \div 2, Pi \div 3}, k \in {1, 4} }

\* scanned energies: flat, rising with the bin, one low bin; the first
\* division not a number, all but the last, all of them
SampleScans ==
    { [i \in 1..NTorsionDivisions |-> 0],
      [i \in 1..NTorsionDivisions |-> i],
      [i \in 1..NTorsionDivisions |-> IF i = 1 THEN 0 ELSE 3],
      [i \in 1..NTorsionDivisions |-> IF i = 1 THEN NaN ELSE i],
      [i \in 1..NTorsionDivisions |-> IF i < NTorsionDivisions THEN NaN ELSE 2],
      [i \in 1..NTorsionDivisions |-> NaN] }

\* no proposal is running while the functions are exercised
NoProposal ==
    /\ residue = NoTorsion
    /\ direction = "forward"
    /\ heavy = <<>>
    /\ hydrogens = <<>>
    /\ atoms_with_positions_set = {}
    /\ residue_atoms_with_positions_set = {}
    /\ connectivity_graph = [nodes |-> {}, edges |-> {}]
    /\ heavy_atoms_torsions = <<>>
    /\ heavy_logp = <<>>
    /\ hydrogen_atoms_torsions = <<>>
    /\ hydrogen_logp = <<>>
    /\ ring = NoRing
    /\ drawn_from = <<>>
    /\ pc = "none"
    /\ neglect_angles = FALSE
    /\ error = "none"
    /\ torsion_proposal_order = <<>>
    /\ logp_choice = <<>>
    /\ growth_system = <<>>
    /\ atoms_with_positions_system = <<>>
    /\ special_terms = NoSpecialTerms
    /\ neglected_angle_terms = <<>>
    /\ old_positions = <<>>
    /\ new_positions = <<>>
    /\ growth_stage = 0
    /\ growth_parameter_value = 0
    /\ atoms_with_positions_reduced_potential = 0
    /\ energy_logger = <<>>
    /\ rjmc_info = <<>>
    /\ logp_proposal = 0
    /\ final_context_reduced_potential = 0

ScoringInit == NoProposal /\ scoring = NotScored /\ engine = NewEngine(FALSE)

\* r = self._propose_bond(bond, beta, n_divisions)
ProposeBond ==
    /\ scoring.kind = "none"
    /\ \E bond \in SampleBonds, index \in 1..NBondDivisions :
         \E offset \in 0..(_bond_log_pmf(bond, NBondDivisions).bin_width - 1) :
           LET r == _propose_bond(bond, NBondDivisions, index, offset)
           IN  scoring' = [kind |-> "bond", term |-> bond, index |-> index,
                           value |-> r,
                           stage |-> IF r > 0 THEN "drawn" ELSE "failed"]
    /\ UNCHANGED << planvars, enginevars, error, engine >>

\* logp_r = self._bond_logp(r, bond, beta, n_divisions)
ScoreBond ==
    /\ scoring.kind = "bond"
    /\ scoring.stage = "drawn"
    /\ scoring' = [kind |-> "bond", term |-> scoring.term,
                   index |-> scoring.index, value |-> scoring.value,
                   stage |-> "scored",
                   logp |-> _bond_logp(scoring.value, scoring.term,
                                       NBondDivisions)]
    /\ UNCHANGED << planvars, enginevars, error, engine >>

\* theta = self._propose_angle(angle, beta, n_divisions)
ProposeAngle ==
    /\ scoring.kind = "none"
    /\ \E angle \in SampleAngles, index \in 1..NAngleDivisions :
         \E offset \in 0..(_angle_log_pmf(angle, NAngleDivisions).bin_width - 1) :
           scoring' = [kind |-> "angle", term |-> angle, index |-> index,
                       value |-> _propose_angle(angle, NAngleDivisions,
                                                index, offset),
                       stage |-> "drawn"]
    /\ UNCHANGED << planvars, enginevars, error, engine >>

\* logp_theta = self._angle_logp(theta, angle, beta, n_divisions)
ScoreAngle ==
    /\ scoring.kind = "angle"
    /\ scoring.stage = "drawn"
    /\ scoring' = [kind |-> "angle", term |-> scoring.term,
                   index |-> scoring.index, value |-> scoring.value,
                   stage |-> "scored",
                   logp |-> _angle_logp(scoring.value, scoring.term,
                                        NAngleDivisions)]
    /\ UNCHANGED << planvars, enginevars, error, engine >>

\* phi, logp_phi = self._propose_torsion(...), on a given scan
\* np.random.choice(range(len(phis)), p=np.exp(logp_torsions)) draws no
\* index of probability zero
ProposeTorsion ==
    /\ scoring.kind = "none"
    /\ \E energies \in SampleScans :
         LET pmf == TorsionPmfOf(energies)
         IN  IF pmf.all_nan
             THEN scoring' = [kind |-> "torsion", term |-> energies,
                              stage |-> "raised", error |-> "Exception"]
             ELSE \E index \in { i \in 1..NTorsionDivisions :
                                   pmf.logp_torsions[i] # MinusInfinity },
                     offset \in 0..(pmf.bin_width - 1) :
                    LET proposed == ProposeTorsionOf(pmf, index, offset)
                    IN  scoring' = [kind |-> "torsion", term |-> energies,
                                    index |-> index, value |-> proposed.phi,
                                    forward_logp |-> proposed.logp,
                                    stage |-> "drawn"]
    /\ UNCHANGED << planvars, enginevars, error, engine >>

\* logp_phi = self._torsion_logp(...), on the same scan
ScoreTorsion ==
    /\ scoring.kind = "torsion"
    /\ scoring.stage = "drawn"
    /\ scoring' = [kind |-> "torsion", term |-> scoring.term,
                   index |-> scoring.index, value |-> scoring.value,
                   forward_logp |-> scoring.forward_logp,
                   stage |-> "scored",
                   logp |-> TorsionLogpOf(TorsionPmfOf(scoring.term),
                                          scoring.value)]
    /\ UNCHANGED << planvars, enginevars, error, engine >>

ScoringNext ==
    \/ ProposeBond
    \/ ScoreBond
    \/ ProposeAngle
    \/ ScoreAngle
    \/ ProposeTorsion
    \/ ScoreTorsion

SpecScoring == ScoringInit /\ [][ScoringNext]_vars

-----------------------------------------------------------------------------
(* Properties of the proposal order *)

\* determine_proposal_order has returned its order
Returned == torsion_proposal_order # <<>>

\* the atoms that have a position before step i of an order
PositionedBefore(order, i) ==
    MappedAtoms(residue) \cup { order[k][1] : k \in 1..(i - 1) }

\* the connectivity graph before step i of an order
RECURSIVE ConnectivityBefore(_, _)
ConnectivityBefore(order, i) ==
    IF i <= 1 THEN InitialConnectivity(residue)
    ELSE add_torsion_connectivity(residue, ConnectivityBefore(order, i - 1),
                                  order[i - 1])

\* the requested atoms without a position before step i, in index order
UnplacedBefore(order, i) ==
    SortedSeq(residue.new \ PositionedBefore(order, i))

\* of these, the atoms of the group (heavy atoms or hydrogens) of step i
GroupBefore(order, i) ==
    SelectSeq(UnplacedBefore(order, i),
              LAMBDA a : (a \in residue.hyd) = (order[i][1] \in residue.hyd))

\* the list a normal selection draws from, for a group of atoms
NormalList(order, i, atom_group) ==
    produce_eligible_torsions_list(residue, atom_group,
        PositionedBefore(order, i), ConnectivityBefore(order, i), FALSE)

\* the list the closure of ring c draws from, for a group of atoms
RingList(order, i, atom_group, c) ==
    FilterRing(
        produce_eligible_torsions_list(residue,
            SelectInCycle(residue, atom_group, c),
            PositionedBefore(order, i), ConnectivityBefore(order, i), TRUE),
        PlacedInCycle(residue, PositionedBefore(order, i), c))

\* C1: the returned proposal order holds every requested atom (the unique
\* new atoms of the direction) as the first atom of exactly one torsion, and
\* holds no torsion whose first atom was not requested.
C1_OrderCoversRequestedAtomsOnce ==
    Returned =>
      /\ \A a \in residue.new :
           Cardinality({ i \in 1..Len(torsion_proposal_order) :
                           torsion_proposal_order[i][1] = a }) = 1
      /\ \A i \in 1..Len(torsion_proposal_order) :
           torsion_proposal_order[i][1] \in residue.new

\* an order of three requested atoms, one of them placed by ring closure
C1_ThreeAtomsOrdered ==
    /\ pc = "planned"
    /\ Cardinality(residue.new) = 3
    /\ residue.cycles # <<>>

\* C2: at every step of the order, as it is built and as it is returned, the
\* three reference atoms of the torsion already have a position: each had
\* one from the start or is the first atom of an earlier torsion of the
\* order.  Normal selection, ring closure and the hydrogens that follow the
\* heavy atoms are all steps of this one order.
C2_ReferencesAlreadyPositioned ==
    LET order == heavy_atoms_torsions \o hydrogen_atoms_torsions
    IN  /\ \A i \in 1..Len(order) :
             {order[i][2], order[i][3], order[i][4]}
               \subseteq PositionedBefore(order, i)
        /\ \A i \in 1..Len(torsion_proposal_order) :
             {torsion_proposal_order[i][2], torsion_proposal_order[i][3],
              torsion_proposal_order[i][4]}
               \subseteq PositionedBefore(torsion_proposal_order, i)

\* a returned order with a normal step, a ring-closure step whose
\* references include an atom placed earlier, and a hydrogen placed on a
\* heavy atom of the same order
C2_AllKindsOfStep ==
    /\ pc = "planned"
    /\ \E i, j \in 1..Len(torsion_proposal_order) :
         /\ i # j
         /\ Len(drawn_from[i]) = 2
         /\ {torsion_proposal_order[i][2], torsion_proposal_order[i][3],
             torsion_proposal_order[i][4]} \cap residue.new # {}
         /\ torsion_proposal_order[j][1] \in residue.hyd
         /\ torsion_proposal_order[j][2] \in residue.new \ residue.hyd

\* C3 as stated: one log-probability per torsion, and the entry of a step
\* is log(1/N) with N the number of eligible torsions over all the atoms
\* still to be placed at that step (counted as a normal selection counts
\* them, or as the closure of a ring counts them).
C3_EntryCountsAllUnplacedAtoms ==
    Returned =>
      /\ Len(logp_choice) = Len(torsion_proposal_order)
      /\ \A i \in 1..Len(torsion_proposal_order) :
           LET order == torsion_proposal_order
               all == UnplacedBefore(order, i)
           IN  \/ logp_choice[i] = 0 - Log(Len(NormalList(order, i, all)))
               \/ \E c \in 1..Len(residue.cycles) :
                    logp_choice[i] = 0 - Log(Len(RingList(order, i, all, c)))

\* C3, amended: one log-probability per torsion, in the same sequence, and
\* the entry of a step is log(1/N) with N the length of the list the step's
\* torsion was drawn from: in a normal selection the eligible torsions of
\* the unplaced atoms of the current group (the heavy atoms, then the
\* hydrogens), in a ring closure the ring-filtered torsions of the unplaced
\* atoms of that group in the ring.
C3_EntryCountsListDrawnFrom ==
    Returned =>
      /\ Len(logp_choice) = Len(torsion_proposal_order)
      /\ Len(drawn_from) = Len(torsion_proposal_order)
      /\ \A i \in 1..Len(torsion_proposal_order) :
           LET order == torsion_proposal_order
               group == GroupBefore(order, i)
           IN  /\ \E k \in 1..Len(drawn_from[i]) :
                    drawn_from[i][k] = order[i]
               /\ \/ drawn_from[i] = NormalList(order, i, group)
                  \/ \E c \in 1..Len(residue.cycles) :
                       drawn_from[i] = RingList(order, i, group, c)
               /\ logp_choice[i] = 0 - Log(Len(drawn_from[i]))

\* a heavy atom drawn from a list of one while a hydrogen is eligible too
C3_HydrogenEligibleAtHeavyStep ==
    /\ pc = "planned"
    /\ residue.new \cap residue.hyd # {}
    /\ logp_choice[1] = 0
    /\ Len(NormalList(torsion_proposal_order, 1,
                      UnplacedBefore(torsion_proposal_order, 1))) = 2

-----------------------------------------------------------------------------
(* Properties of the growth system and of the recorded energies *)

\* the growth system has been built
Built == pc \in { "place", "finish", "done" }

\* every atom has been placed
Placed == pc \in { "finish", "done" }

\* the 1-based placement rank of a new atom
RankOf(a) == IndexOf(growth_indices_of(torsion_proposal_order), a)

NewAtomsOf(t) == SeqToSet(t.p) \cap residue.new

\* the positions the energies of a finished proposal are taken at
FinalPositions ==
    IF direction = "forward" THEN new_positions ELSE old_positions

\* the terms of the growth system with a given growth index
TermsOfStep(k) == SelectSeq(growth_system, LAMBDA t : t.growth_idx = k)

\* C4: a term of the growth system that touches a new atom is active at a
\* growth parameter only if the parameter is at least the placement rank of
\* every new atom the term touches; the gated reference terms and the
\* ring-biasing torsions alike.
C4_TermsGatedByPlacementRank ==
    Built =>
      \A n \in 1..Len(growth_system) :
        \A g \in 0..Len(torsion_proposal_order) :
          TermActive(growth_system[n], g) =>
            \A a \in NewAtomsOf(growth_system[n]) : g >= RankOf(a)

\* C5: the incremental energy recorded at step k is the energy, at the
\* final positions, of the terms whose growth index is k, and none of these
\* terms touches an atom that is placed after step k.
C5_IncrementIsEnergyOfStepTerms ==
    Placed =>
      \A k \in 1..Len(rjmc_info) :
        /\ rjmc_info[k].added_energy
             = PotentialEnergy(TermsOfStep(k), FinalPositions)
        /\ \A n \in 1..Len(growth_system) :
             growth_system[n].growth_idx = k =>
               \A a \in NewAtomsOf(growth_system[n]) : RankOf(a) <= k

\* C6: the added_energy values of all placement records sum to the energy
\* of the growth system at the maximum growth index on the final positions.
C6_IncrementsSumToGrowthEnergy ==
    Placed =>
      SumSeq([k \in 1..Len(rjmc_info) |-> rjmc_info[k].added_energy])
        = GrowthEnergy(growth_system, Len(torsion_proposal_order),
                       FinalPositions)

\* three atoms placed, with a nonzero energy recorded before the last
C6_ThreeIncrements ==
    /\ pc = "done"
    /\ Len(rjmc_info) = 3
    /\ rjmc_info[1].added_energy # 0
    /\ rjmc_info[3].added_energy # 0

\* C7: the total log-probability of a proposal is the sum over the placed
\* atoms of (order-choice log-probability + logp_r + logp_theta + logp_phi
\* - log|det J|): log|det J| is subtracted once for every placed atom, an
\* atom whose bond is constrained included.
C7_TotalIsSumOverAtoms ==
    Placed =>
      logp_proposal =
        SumSeq([k \in 1..Len(rjmc_info) |->
                  logp_choice[k] + rjmc_info[k].logp_r
                  + rjmc_info[k].logp_theta + rjmc_info[k].logp_phi
                  - rjmc_info[k].log_detJ])

\* a returned proposal of an atom on a constrained bond, with a Jacobian
\* whose logarithm is not zero
C7_ConstrainedBondPlaced ==
    /\ pc = "done"
    /\ \E k \in 1..Len(rjmc_info) :
         /\ {torsion_proposal_order[k][1], torsion_proposal_order[k][2]}
              \in residue.constraints
         /\ rjmc_info[k].logp_r = 0
         /\ rjmc_info[k].log_detJ # 0

\* the energy assertion has been reached
Asserted ==
    /\ Returned
    /\ pc \in { "done", "failed" }
    /\ Len(energy_logger) = Len(torsion_proposal_order)

\* the energy of the core system plus that of the growth system at the
\* final growth index, and the energy of the final system
SumOfEnergies ==
    atoms_with_positions_reduced_potential
    + GrowthEnergy(growth_system, Len(torsion_proposal_order), FinalPositions)

FinalEnergy ==
    PotentialEnergy(
        _define_no_nb_system(residue, neglected_angle_terms,
            growth_indices_of(torsion_proposal_order), special_terms),
        FinalPositions)

\* |sum - final| < 1e-3 * |final|
Reconciled(sum, final) == 1000 * Abs(sum - final) < Abs(final)

\* C10: a proposal returns only if the energy of the core system plus the
\* energy of the growth system at the final growth index is within the
\* relative tolerance 1e-3 of the energy of the final system; with a larger
\* mismatch it ends in an error and returns nothing.
C10_ReturnsOnlyIfEnergiesReconcile ==
    Asserted =>
      /\ (pc = "done") <=> Reconciled(SumOfEnergies, FinalEnergy)
      /\ pc = "failed" => error # "none"

\* a proposal that returns with energies that differ, within the tolerance
C10_ReturnedWithinTolerance ==
    /\ pc = "done"
    /\ SumOfEnergies # FinalEnergy

-----------------------------------------------------------------------------
(* Properties of sampling and scoring *)

\* C8: scoring a torsion angle drawn from bin i of a scan, with the same
\* scan, returns the log-density of bin i, which is the logp_phi of the
\* forward direction.
C8_TorsionScoredInItsBin ==
    (scoring.kind = "torsion" /\ scoring.stage = "scored") =>
      /\ scoring.logp = scoring.forward_logp
      /\ scoring.logp = TorsionPmfOf(scoring.term).logp_torsions[scoring.index]
                          - Log(TorsionPmfOf(scoring.term).bin_width)

\* C9: a bond length or angle drawn from bin i of its distribution lies in
\* the support of the distribution, and scoring it finds bin i and returns
\* the log-mass of bin i minus the log of the bin width, never LOG_ZERO.
C9_BondAndAngleScoredInTheirBin ==
    /\ (scoring.kind = "bond" /\ scoring.stage = "scored") =>
         LET pmf == _bond_log_pmf(scoring.term, NBondDivisions)
         IN  /\ scoring.value >= pmf.r_i[1]
             /\ scoring.value < pmf.r_i[NBondDivisions] + pmf.bin_width
             /\ scoring.logp # LOG_ZERO
             /\ scoring.logp = pmf.log_p_i[scoring.index] - Log(pmf.bin_width)
    /\ (scoring.kind = "angle" /\ scoring.stage = "scored") =>
         LET pmf == _angle_log_pmf(scoring.term, NAngleDivisions)
         IN  /\ scoring.value >= pmf.theta_i[1]
             /\ scoring.value < pmf.theta_i[NAngleDivisions] + pmf.bin_width
             /\ scoring.logp # LOG_ZERO
             /\ scoring.logp = pmf.log_p_i[scoring.index] - Log(pmf.bin_width)

\* the highest value of the last bin of a bond distribution, scored
C9_TopOfLastBinScored ==
    /\ scoring.kind = "bond"
    /\ scoring.stage = "scored"
    /\ scoring.index = NBondDivisions
    /\ scoring.value = _bond_log_pmf(scoring.term, NBondDivisions).r_i[NBondDivisions]
                       + _bond_log_pmf(scoring.term, NBondDivisions).bin_width - 1

-----------------------------------------------------------------------------
(* Failures of the planner *)

\* the list the planner is about to draw from is empty
NoTorsionNow ==
    /\ pc \in PlannerCalls
    /\ IF ~ring.active
       THEN produce_eligible_torsions_list(residue, GroupOf(pc),
                atoms_with_positions_set, connectivity_graph, FALSE) = <<>>
       ELSE FilterRing(
                produce_eligible_torsions_list(residue, ring.cycle_atom_group,
                    atoms_with_positions_set, connectivity_graph, TRUE),
                ring.placed_atoms_in_cycle) = <<>>

\* C11: when the planner finds no eligible torsion at a step, of a normal
\* selection or of a ring closure, the step ends the planning with an
\* error: no order and no log-probabilities are returned, whatever had been
\* planned before, and nothing happens after the failure (no retry).
C11_NoTorsionEndsPlanning ==
    [][ /\ NoTorsionNow =>
             /\ pc' = "failed"
             /\ error' \in { "AssertionError", "Exception" }
             /\ torsion_proposal_order' = <<>>
             /\ logp_choice' = <<>>
        /\ pc # "failed" ]_vars

\* a ring closure that found no torsion after an atom had been planned
C11_RingClosureWithoutTorsion ==
    /\ pc = "failed"
    /\ error = "Exception"
    /\ ring.active
    /\ heavy_atoms_torsions # <<>>
    /\ torsion_proposal_order = <<>>

-----------------------------------------------------------------------------
(* Missing parameters and values outside the support *)

\* the torsion of the k-th placement record
TorsionOfRecord(k) == torsion_proposal_order[k]

\* C12: no atom is placed or scored, in either direction, when its bond to
\* the bond reference atom has neither parameters nor a constraint or when
\* it shares no angle term with its bond and angle reference atoms: such a
\* proposal ends in an error and records no log-probability for the atom.
C12_MissingParametersAreFatal ==
    \A k \in 1..Len(rjmc_info) :
        LET t == TorsionOfRecord(k)
        IN  /\ \/ BondType(residue, t[1], t[2]).typed
               \/ _get_bond_constraint(residue, t[1], t[2]).defined
            /\ AngleType(residue, t[1], t[2], t[3]).found

\* a bond length below the first bin edge or at or above the upper edge of
\* the last bin
BondOutsideSupport(r, bond) ==
    LET pmf == _bond_log_pmf(bond, NBondDivisions)
    IN  r < pmf.r_i[1] \/ r >= pmf.r_i[NBondDivisions] + pmf.bin_width

AngleOutsideSupport(theta, angle) ==
    LET pmf == _angle_log_pmf(angle, NAngleDivisions)
    IN  theta < pmf.theta_i[1]
        \/ theta >= pmf.theta_i[NAngleDivisions] + pmf.bin_width

\* C13: when the bond length or the angle of the atom being scored lies
\* outside the discretised support, the step does not fail: the atom is
\* recorded with LOG_ZERO as logp_r or logp_theta, the sentinel goes into
\* the total log-probability and the proposal goes on.
C13_OutsideSupportScoredAsLogZero ==
    [][ (pc = "place" /\ direction = "reverse") =>
          LET t == torsion_proposal_order[growth_parameter_value]
              bond == BondType(residue, t[1], t[2])
              angle == AngleType(residue, t[1], t[2], t[3])
              ic == cartesian_to_internal(old_positions[t[1]],
                        old_positions[t[2]], old_positions[t[3]],
                        old_positions[t[4]])
              r_outside == bond.typed /\ BondOutsideSupport(ic.r, bond)
              theta_outside == AngleOutsideSupport(ic.theta, angle)
          IN  (angle.found /\ (r_outside \/ theta_outside)) =>
                /\ pc' \in { "place", "finish" }
                /\ error' = "none"
                /\ Len(rjmc_info') = Len(rjmc_info) + 1
                /\ r_outside => Last(rjmc_info').logp_r = LOG_ZERO
                /\ theta_outside => Last(rjmc_info').logp_theta = LOG_ZERO
                /\ logp_proposal' =
                     logp_proposal + Last(rjmc_info').logp_r
                       + Last(rjmc_info').logp_theta
                       + Last(rjmc_info').logp_phi
                       - Last(rjmc_info').log_detJ ]_vars

\* an atom scored with both sentinels, and the atom scored after it
C13_SentinelsThenNextAtom ==
    \E k \in 1..Len(rjmc_info) :
        /\ rjmc_info[k].logp_r = LOG_ZERO
        /\ rjmc_info[k].logp_theta = LOG_ZERO
        /\ Len(rjmc_info) > k
        /\ logp_proposal < 2 * LOG_ZERO

-----------------------------------------------------------------------------
(* The reverse direction *)

\* the internal coordinates of the atom of a torsion in the old positions
MeasuredCoordinates(t) ==
    cartesian_to_internal(old_positions[t[1]], old_positions[t[2]],
                          old_positions[t[3]], old_positions[t[4]])

\* C14: in the reverse direction no step writes to the old positions or to
\* the new positions, the new positions stay the supplied ones up to the
\* return, and the r, theta and phi of every placement record are the
\* internal coordinates measured in the old positions, not drawn values.
C14_ReverseOnlyScores ==
    [][ direction = "reverse" =>
          /\ old_positions' = old_positions
          /\ new_positions' = new_positions
          /\ new_positions' = [a \in MappedAtoms(residue) |-> CorePosition(a)]
          /\ \A k \in 1..Len(rjmc_info') :
               LET ic == MeasuredCoordinates(torsion_proposal_order'[k])
               IN  /\ rjmc_info'[k].r = ic.r
                   /\ rjmc_info'[k].theta = ic.theta
                   /\ rjmc_info'[k].phi = ic.phi ]_vars

\* a reverse proposal of two atoms that has returned
C14_TwoAtomsScored ==
    /\ direction = "reverse"
    /\ pc = "done"
    /\ Len(rjmc_info) >= 2
    /\ DOMAIN new_positions = MappedAtoms(residue)

-----------------------------------------------------------------------------
(* The public calls of one engine: propose() and logp_reverse().  What     *)
(* happens inside _logp_propose is an input here: it raises one of its     *)
(* errors or reaches its return statement.                                 *)

\* the number of calls made on one engine
MaxCalls == 4

\* the return statements of _logp_propose: six values with use_sterics,
\* seven without
LogpProposeReturnLength(use_sterics) == IF use_sterics THEN 6 ELSE 7

\* "logp_proposal, new_positions, rjmc_info, ..., special_terms = ...":
\* unpacking into seven names raises ValueError for any other length
UnpackRaises(length) == length # 7

\* the outcome of a call that went through _logp_propose
CallOutcome(method, unique_atoms, logp_propose_returns, values) ==
    LET unpacked == logp_propose_returns
                    /\ ~UnpackRaises(LogpProposeReturnLength(engine.use_sterics))
        raised == unique_atoms /\ ~unpacked
    IN  [method |-> method, unique_atoms |-> unique_atoms,
         logp_propose_returned |-> unique_atoms /\ logp_propose_returns,
         outcome |-> IF raised THEN "raised" ELSE "returned",
         error |-> IF ~raised THEN "none"
                   ELSE IF ~logp_propose_returns THEN "error of _logp_propose"
                   ELSE "ValueError",
         values |-> IF raised THEN 0 ELSE values]

\* FFAllAngleGeometryEngine.propose
Propose ==
    /\ engine.propose_calls + engine.reverse_calls < MaxCalls
    /\ \E unique_new_atoms \in BOOLEAN, logp_propose_returns \in BOOLEAN :
         LET call == CallOutcome("propose", unique_new_atoms,
                                 logp_propose_returns, 2)
         IN  engine' = [engine EXCEPT
                          !.propose_calls = @ + 1,
                          !.propose_raised = IF call.outcome = "raised"
                                             THEN @ + 1 ELSE @,
                          !.nproposed = IF unique_new_atoms
                                           /\ call.outcome = "returned"
                                        THEN @ + 1 ELSE @,
                          !.last = call]
    /\ UNCHANGED << planvars, enginevars, error, scoring >>

\* FFAllAngleGeometryEngine.logp_reverse
LogpReverse ==
    /\ engine.propose_calls + engine.reverse_calls < MaxCalls
    /\ \E unique_old_atoms \in BOOLEAN, logp_propose_returns \in BOOLEAN :
         engine' = [engine EXCEPT
                      !.reverse_calls = @ + 1,
                      !.last = CallOutcome("logp_reverse", unique_old_atoms,
                                           logp_propose_returns, 1)]
    /\ UNCHANGED << planvars, enginevars, error, scoring >>

CallsInit ==
    /\ NoProposal
    /\ scoring = NotScored
    /\ \E use_sterics \in BOOLEAN : engine = NewEngine(use_sterics)

CallsNext == Propose \/ LogpReverse

SpecCalls == CallsInit /\ [][CallsNext]_vars

\* C15: with use_sterics = True as with False, a call of propose() or of
\* logp_reverse() whose _logp_propose reached its return statement
\* returns: propose its two values, logp_reverse its one, without an error.
C15_StericsProposalCompletes ==
    (engine.last.method # "none" /\ engine.last.logp_propose_returned) =>
        /\ engine.last.outcome = "returned"
        /\ engine.last.error = "none"
        /\ engine.last.values =
             IF engine.last.method = "propose" THEN 2 ELSE 1

\* C16: nproposed is the number of calls of propose() that the engine has
\* completed, with or without unique new atoms (a call that ended in an
\* error is left out of the count); logp_reverse() leaves it alone.
C16_NproposedCountsProposeCalls ==
    engine.nproposed = engine.propose_calls - engine.propose_raised

-----------------------------------------------------------------------------
(* The list a normal selection draws from *)

\* the four-atom simple paths of the residue graph that start at an atom
\* of the group without a position, pass through three positioned atoms
\* and have their last two edges in the connectivity graph
AllSimplePathTorsions(res, atom_group, positioned, cg) ==
    { p \in UNION { SeqToSet(simple_paths_of_four(res.bonds, a, t)) :
                      a \in SeqToSet(atom_group) \ positioned,
                      t \in Atoms(res) } :
        /\ {p[2], p[3], p[4]} \subseteq positioned
        /\ ConnHasEdge(cg, p[2], p[3])
        /\ ConnHasEdge(cg, p[3], p[4]) }

\* fewer than three bonds lie between a and t
Closer(res, a, t) ==
    \/ HasEdge(res.bonds, a, t)
    \/ \E m \in Atoms(res) : HasEdge(res.bonds, a, m) /\ HasEdge(res.bonds, m, t)

\* a step of normal selection
NormalSelectionStep ==
    /\ pc \in {"plan_heavy", "plan_hydrogens"}
    /\ ~ring.active
    /\ pc' # pc \/ drawn_from' # drawn_from

\* the list the step drew from (empty when the step found none)
ListDrawnFrom ==
    IF drawn_from' # drawn_from THEN SeqToSet(Last(drawn_from')) ELSE {}

\* C17: at every normal planning step the list of eligible torsions is
\* exactly the set of all four-atom simple paths from an atom of the
\* current group without a position through three positioned atoms with
\* the last two edges in the connectivity graph.
C17_EligibleAreAllSimplePaths ==
    [][ NormalSelectionStep =>
          ListDrawnFrom = AllSimplePathTorsions(residue, GroupOf(pc),
                              atoms_with_positions_set, connectivity_graph)
      ]_vars

\* C17 (amended): every listed torsion is such a path, at most one torsion
\* is listed per pair of first and last atom, and a path of that kind is
\* left out only if its last atom is fewer than three bonds from its first
\* or if the residue graph holds another four-atom path between the two.
C17_EligibleAreShortestPaths ==
    [][ NormalSelectionStep =>
          LET all == AllSimplePathTorsions(residue, GroupOf(pc),
                         atoms_with_positions_set, connectivity_graph)
          IN  /\ ListDrawnFrom \subseteq all
              /\ \A p, q \in ListDrawnFrom :
                    (p[1] = q[1] /\ p[4] = q[4]) => p = q
              /\ \A p \in all \ ListDrawnFrom :
                    \/ Closer(residue, p[1], p[4])
                    \/ Len(simple_paths_of_four(residue.bonds, p[1], p[4])) > 1
      ]_vars

\* a normal selection that drew from two torsions of which one leads to
\* an atom of a ring
C17_DrawnFromSeveralPaths ==
    /\ pc = "planned"
    /\ \E i \in 1..Len(drawn_from) :
         /\ Len(drawn_from[i]) >= 2
         /\ \E j \in 1..Len(drawn_from[i]) :
              cycle_membership(residue, drawn_from[i][j][1]) # <<>>

-----------------------------------------------------------------------------
(* Ring closure *)

\* the torsions selected so far by the two calls of the planner
SelectedTorsions == heavy_atoms_torsions \o hydrogen_atoms_torsions

\* C20: the list of atoms that a ring closure has still to place holds no
\* atom with a position, and no two selected torsions have the same first
\* atom: the planner never selects a torsion whose first atom is already
\* positioned.
C20_RingClosureSelectsUnplacedAtoms ==
    /\ ring.active =>
          SeqToSet(ring.cycle_atom_group) \cap atoms_with_positions_set = {}
    /\ \A i, j \in 1..Len(SelectedTorsions) :
          SelectedTorsions[i][1] = SelectedTorsions[j][1] => i = j

\* the atoms of the ring that is being closed
RingBeingClosed(rng) == residue.cycles[rng.membership[rng.idx]]

\* a selection made by the ring-closure loop
RingClosureSelection ==
    /\ pc \in {"plan_heavy", "plan_hydrogens"}
    /\ ring.active
    /\ SelectedTorsions' # SelectedTorsions

\* the torsion a selecting step has appended
TorsionSelected ==
    IF pc = "plan_heavy" THEN Last(heavy_atoms_torsions')
    ELSE Last(hydrogen_atoms_torsions')

\* C18: once ring closure is entered for ring R, every selection places
\* an atom of R that had no position, by a torsion whose three reference
\* atoms are positioned atoms of R, and the closure of R is left only
\* when every atom of R has a position.
C18_RingClosureStaysInRing ==
    [][ RingClosureSelection =>
          LET R == RingBeingClosed(ring)
              torsion == TorsionSelected
          IN  /\ torsion[1] \in R \ atoms_with_positions_set
              /\ {torsion[2], torsion[3], torsion[4]}
                    \subseteq R \cap atoms_with_positions_set
              /\ atoms_with_positions_set' =
                    atoms_with_positions_set \cup {torsion[1]}
              /\ \/ ring'.active /\ ring'.idx = ring.idx
                 \/ R \subseteq atoms_with_positions_set'
      ]_vars

\* a step that enters the ring-closure loop for a ring
RingClosureEntered ==
    /\ ring'.active
    /\ ~ring.active \/ ring'.idx # ring.idx

\* C19: ring closure for ring R is entered only by the selection that has
\* just placed an atom of R, or on leaving the closure of another ring of
\* such an atom; at that moment at least three atoms of R have positions
\* and at least one atom of R has none; a ring of three atoms of which two
\* had positions from the start is never closed by the ring-closure loop.
C19_RingClosureEntryConditions ==
    [][ RingClosureEntered =>
          LET R == RingBeingClosed(ring')
          IN  /\ IF ~ring.active THEN TorsionSelected[1] \in R
                 ELSE \E k \in 1..Len(SelectedTorsions') :
                        SelectedTorsions'[k][1] \in R \cap RingBeingClosed(ring)
              /\ Cardinality(R \cap atoms_with_positions_set') >= 3
              /\ R \ atoms_with_positions_set' # {}
              /\ ~(Cardinality(R) = 3 /\ Cardinality(R \ residue.new) = 2)
      ]_vars

-----------------------------------------------------------------------------
(* Heavy atoms and hydrogens *)

\* C21: in the returned order every heavy atom to place precedes every
\* hydrogen to place, and no hydrogen is selected while a heavy atom is
\* still to be planned.
C21_HeavyAtomsBeforeHydrogens ==
    /\ \A i, j \in 1..Len(torsion_proposal_order) :
          (/\ torsion_proposal_order[i][1] \notin residue.hyd
           /\ torsion_proposal_order[j][1] \in residue.hyd) => i < j
    /\ hydrogen_atoms_torsions # <<>> => heavy = <<>>
    /\ pc = "plan_hydrogens" => heavy = <<>>

\* an order returned with a heavy atom and a hydrogen on an atom that had
\* its position from the start
C21_HeavyThenHydrogenReturned ==
    /\ pc = "planned"
    /\ \E i, j \in 1..Len(torsion_proposal_order) :
         /\ torsion_proposal_order[i][1] \notin residue.hyd
         /\ torsion_proposal_order[j][1] \in residue.hyd
         /\ torsion_proposal_order[j][2] \notin residue.new

-----------------------------------------------------------------------------
(* GeometrySystemGenerator._calculate_growth_idx on its own: the growth    *)
(* indices of an order are fixed at the start and the function is applied  *)
(* to the particle indices of one term.                                    *)

\* the particles of the system the terms are taken from
NParticles == 5

\* the longest order of atoms to place
MaxOrder == 3

\* the sequences of n distinct elements of S
DistinctSeqs(S, n) ==
    { q \in [1..n -> S] : \A i, j \in 1..n : q[i] = q[j] => i = j }

\* the atoms of a proposal order, each placed once
GrowthIndicesInputs ==
    UNION { DistinctSeqs(0..(NParticles - 1), n) : n \in 0..MaxOrder }

\* the particle lists of bonds and exceptions, angles and torsions
ParticleIndicesInputs ==
    UNION { DistinctSeqs(0..(NParticles - 1), n) : n \in 2..4 }

GrowthIdxInit ==
    /\ NoProposal
    /\ engine = NewEngine(FALSE)
    /\ \E growth_indices \in GrowthIndicesInputs :
         scoring = [kind |-> "growth_indices", growth_indices |-> growth_indices]

CalculateGrowthIdx ==
    /\ scoring.kind = "growth_indices"
    /\ \E particle_indices \in ParticleIndicesInputs :
         scoring' = [kind |-> "growth_idx",
                     growth_indices |-> scoring.growth_indices,
                     particle_indices |-> particle_indices,
                     growth_idx |-> _calculate_growth_idx(particle_indices,
                                        scoring.growth_indices)]
    /\ UNCHANGED << planvars, enginevars, error, engine >>

SpecGrowthIdx == GrowthIdxInit /\ [][CalculateGrowthIdx]_vars

\* the positions, counted from 1, that the particles of a term have in
\* the order
PositionsInOrder(particle_indices, growth_indices) ==
    { i \in 1..Len(growth_indices) :
        \E k \in 1..Len(particle_indices) :
          particle_indices[k] = growth_indices[i] }

\* C22: the growth index of a term is 0 if none of its particles is an
\* atom of the order, and otherwise the largest position, counted from 1,
\* that one of its particles has in the order.
C22_GrowthIdxIsLargestPosition ==
    scoring.kind = "growth_idx" =>
        LET positions == PositionsInOrder(scoring.particle_indices,
                                          scoring.growth_indices)
        IN  IF positions = {} THEN scoring.growth_idx = 0
            ELSE /\ scoring.growth_idx \in positions
                 /\ \A i \in positions : i <= scoring.growth_idx

\* a term with two atoms of the order, the one placed later listed first
C22_LaterAtomListedFirst ==
    /\ scoring.kind = "growth_idx"
    /\ scoring.growth_idx = 3
    /\ scoring.particle_indices[1] = scoring.growth_indices[3]
    /\ \E k \in 2..Len(scoring.particle_indices) :
         scoring.particle_indices[k] = scoring.growth_indices[1]

-----------------------------------------------------------------------------
(* The routing of the terms of the reference system *)

\* the bonds, angles and torsions of the reference system, in the order
\* in which the core system holds them
ReferenceValence == HarmonicBondForce(residue) \o HarmonicAngleForce(residue) \o PeriodicTorsionForce(residue)

\* the force constant among the parameters of a term
ForceConstant(t) == IF t.kind = "torsion" THEN t.params[3] ELSE t.params[2]

\* the largest position in the returned order of an atom of the term, or 0
GrowthIdxOf(t) ==
    LET positions == PositionsInOrder(t.p, growth_indices_of(torsion_proposal_order))
    IN  IF positions = {} THEN 0
        ELSE CHOOSE m \in positions : \A i \in positions : i <= m

\* the copies of a reference term in the growth system
CopiesInGrowth(t) ==
    { k \in 1..Len(growth_system) :
        /\ growth_system[k].kind = t.kind
        /\ growth_system[k].p = t.p
        /\ growth_system[k].params = t.params }

\* the entries of the matching omitted list that name the term
OmittedEntries(t) ==
    LET omitted == IF t.kind = "bond" THEN special_terms.omitted_bonds
                   ELSE IF t.kind = "angle" THEN special_terms.omitted_angles
                   ELSE IF t.kind = "torsion" THEN special_terms.omitted_torsions
                   ELSE special_terms.omitted_14s
    IN  { k \in 1..Len(omitted) : omitted[k].p = t.p }

\* the entries of neglected_angle_terms that are the index of the term in
\* the reference angle force
NeglectedEntries(t) ==
    { k \in 1..Len(neglected_angle_terms) :
        /\ t.kind = "angle"
        /\ neglected_angle_terms[k] \in 1..Len(HarmonicAngleForce(residue))
        /\ HarmonicAngleForce(residue)[neglected_angle_terms[k]] = t }

\* the systems have just been built; no later step changes them
JustBuilt == pc = "place" /\ energy_logger = <<>>

\* C23: a bond, angle or torsion with growth index 0 keeps its force
\* constant in the core system and has no copy in the growth system; one
\* with growth index > 0 has force constant zero in the core system and
\* is in exactly one of the growth system (with its growth index), the
\* omitted terms and the neglected angle terms.
C23_TermsRoutedByGrowthIndex ==
    JustBuilt =>
      /\ Len(atoms_with_positions_system) >= Len(ReferenceValence)
      /\ \A i \in 1..Len(ReferenceValence) :
           LET t == ReferenceValence[i]
               core == atoms_with_positions_system[i]
           IN  /\ core.kind = t.kind /\ core.p = t.p
               /\ IF GrowthIdxOf(t) = 0
                  THEN /\ core.params = t.params
                       /\ ForceConstant(core) # 0
                       /\ CopiesInGrowth(t) = {}
                       /\ OmittedEntries(t) = {}
                       /\ NeglectedEntries(t) = {}
                  ELSE /\ ForceConstant(core) = 0
                       /\ \A k \in CopiesInGrowth(t) :
                             growth_system[k].growth_idx = GrowthIdxOf(t)
                       /\ Cardinality(CopiesInGrowth(t))
                            + Cardinality(OmittedEntries(t))
                            + Cardinality(NeglectedEntries(t)) = 1

\* a built system with a core term, a growth term, an omitted term and a
\* neglected angle
C23_AllRoutesTaken ==
    /\ JustBuilt
    /\ \E i \in 1..Len(ReferenceValence) : GrowthIdxOf(ReferenceValence[i]) = 0
    /\ \E i \in 1..Len(ReferenceValence) : CopiesInGrowth(ReferenceValence[i]) # {}
    /\ \E i \in 1..Len(ReferenceValence) : OmittedEntries(ReferenceValence[i]) # {}
    /\ neglected_angle_terms # <<>>

\* the term crosses a bond of the residue graph that the planner's
\* connectivity graph lacks
OmittedEdgeIn(t) ==
    \E i \in 1..(Len(t.p) - 1) :
        /\ HasEdge(residue.bonds, t.p[i], t.p[i + 1])
        /\ {t.p[i], t.p[i + 1]} \notin connectivity_graph.edges

\* the system of the final energy comparison
FinalSystem ==
    _define_no_nb_system(residue, neglected_angle_terms,
                         growth_indices_of(torsion_proposal_order),
                         special_terms)

ReferenceExceptions == NonbondedExceptions(residue)

\* a path of three bonds of the connectivity graph joins the two atoms of
\* the exception and crosses no omitted edge
ThreeBondPath(t) ==
    \E b, c \in Atoms(residue) \ SeqToSet(t.p) :
        /\ b # c
        /\ \A e \in { <<t.p[1], b>>, <<b, c>>, <<c, t.p[2]>> } :
              /\ {e[1], e[2]} \in connectivity_graph.edges
              /\ ~EdgeOmitted(residue, connectivity_graph, e[1], e[2])

\* C25: the builder never fails on an exception; an exception with growth
\* index > 0 has one copy in the growth system, with its growth index, if
\* a three-bond path of the connectivity graph without omitted edge joins
\* its atoms, and otherwise no copy and exactly one entry in the omitted
\* 1,4 terms.
C25_ExceptionsRoutedWithoutFailure ==
    /\ error # "IndexError"
    /\ JustBuilt =>
         \A i \in 1..Len(ReferenceExceptions) :
           LET t == ReferenceExceptions[i]
           IN  GrowthIdxOf(t) > 0 =>
                 IF ThreeBondPath(t)
                 THEN /\ Cardinality(CopiesInGrowth(t)) = 1
                      /\ \A k \in CopiesInGrowth(t) :
                            growth_system[k].growth_idx = GrowthIdxOf(t)
                      /\ OmittedEntries(t) = {}
                 ELSE /\ CopiesInGrowth(t) = {}
                      /\ Cardinality(OmittedEntries(t)) = 1

\* the angles of the reference system
ReferenceAngles == HarmonicAngleForce(residue)

\* the atoms of the angle are the first three atoms of a torsion of the
\* returned order, in that sequence or in the opposite one
FirstThreeOfATorsion(t) ==
    \E k \in 1..Len(torsion_proposal_order) :
        LET torsion == torsion_proposal_order[k]
        IN  \/ /\ t.p[1] = torsion[1] /\ t.p[2] = torsion[2]
               /\ t.p[3] = torsion[3]
            \/ /\ t.p[3] = torsion[1] /\ t.p[2] = torsion[2]
               /\ t.p[1] = torsion[3]

\* C26: with neglect_angles on, an angle with growth index > 0 is in the
\* growth system if its atoms are the first three atoms of a torsion of
\* the order in either direction, and otherwise its index is recorded
\* once in neglected_angle_terms and it has no copy in the growth system;
\* with neglect_angles off, neglected_angle_terms is empty.
C26_AnglesNeglectedUnlessInTorsion ==
    JustBuilt =>
      IF neglect_angles
      THEN \A i \in 1..Len(ReferenceAngles) :
             LET t == ReferenceAngles[i]
                 recorded == { k \in 1..Len(neglected_angle_terms) :
                                 neglected_angle_terms[k] = i }
             IN  IF GrowthIdxOf(t) > 0 /\ ~FirstThreeOfATorsion(t)
                 THEN Cardinality(recorded) = 1 /\ CopiesInGrowth(t) = {}
                 ELSE /\ recorded = {}
                      /\ GrowthIdxOf(t) > 0 =>
                            /\ Cardinality(CopiesInGrowth(t)) = 1
                            /\ \A k \in CopiesInGrowth(t) :
                                  growth_system[k].growth_idx = GrowthIdxOf(t)
      ELSE neglected_angle_terms = <<>>

\* with neglect_angles on, one angle kept because it is the start of a
\* torsion read backwards, and one angle neglected
C26_AngleOfReversedTorsionKept ==
    /\ JustBuilt
    /\ neglect_angles
    /\ neglected_angle_terms # <<>>
    /\ \E i \in 1..Len(ReferenceAngles) :
         /\ CopiesInGrowth(ReferenceAngles[i]) # {}
         /\ \E k \in 1..Len(torsion_proposal_order) :
              ReferenceAngles[i].p[3] = torsion_proposal_order[k][1]

-----------------------------------------------------------------------------
(* The placement loop *)

\* a pass of the placement loop that places (or scores) an atom
PlacementStep == pc = "place" /\ rjmc_info' # rjmc_info

\* C27: the k-th pass of the placement loop handles the k-th torsion of
\* the order with the growth parameter set to k: the torsion is scanned
\* at growth index k with the bond length and the angle of the record,
\* the energy read afterwards is that of the terms with growth index up
\* to k at the positions after the placement, one record is appended and
\* the growth parameter rises by one.
C27_AtomsPlacedInOrderAtTheirIndex ==
    [][ PlacementStep =>
          LET k == Len(rjmc_info) + 1
              torsion == torsion_proposal_order[k]
              record == Last(rjmc_info')
              positions == IF direction = "forward" THEN new_positions'
                           ELSE old_positions
              pmf == _torsion_log_pmf(growth_system, k, torsion,
                         IF direction = "forward" THEN new_positions
                         ELSE old_positions,
                         record.r, record.theta, NTorsionDivisions)
          IN  /\ growth_parameter_value = k
              /\ growth_stage' = k
              /\ growth_parameter_value' = k + 1
              /\ rjmc_info' = Append(rjmc_info, record)
              /\ record.atom_index = torsion[1]
              /\ record.proposal_prob = logp_choice[k]
              /\ IF direction = "forward"
                 THEN \E draw \in EdgeDraws(NTorsionDivisions,
                                            TwoPi \div NTorsionDivisions) :
                        LET proposed == ProposeTorsionOf(pmf, draw[1], draw[2])
                        IN  /\ record.phi = proposed.phi
                            /\ record.logp_phi = proposed.logp
                 ELSE record.logp_phi = TorsionLogpOf(pmf, record.phi)
              /\ energy_logger' =
                    Append(energy_logger,
                           PotentialEnergy(
                               SelectSeq(growth_system,
                                         LAMBDA t : t.growth_idx <= k),
                               positions))
              /\ pc' = IF k = Len(torsion_proposal_order) THEN "finish"
                       ELSE "place"
      ]_vars

\* three atoms placed, one after the other
C27_ThirdAtomPlaced ==
    /\ pc = "finish"
    /\ Len(rjmc_info) = 3
    /\ growth_stage = 3
    /\ growth_parameter_value = 4
    /\ \A k \in 1..3 : rjmc_info[k].atom_index = torsion_proposal_order[k][1]
    /\ \E k \in 1..Len(growth_system) : growth_system[k].growth_idx = 3

\* ---- the torsion scan with energies that are not numbers ----

\* the divisions of a scan whose energy is a number
NumberDivisions(energies) == SelectSeq(energies, LAMBDA e : e # NaN)

\* a torsion has been proposed from a scan, or the scan has failed
TorsionScanned == scoring.kind = "torsion"

\* C28: the torsion scan fails exactly when the energy of every division
\* is not a number; otherwise every division whose energy is not a number
\* has log-probability minus infinity and is never the division drawn, the
\* draw has a finite log-probability, and the log-probabilities of the
\* other divisions are those of the scan made of these divisions alone
C28_NaNDivisionsGetProbabilityZero ==
    TorsionScanned =>
      LET energies == scoring.term
          pmf == TorsionPmfOf(energies)
      IN  /\ (scoring.stage = "raised")
                <=> (\A i \in 1..Len(energies) : energies[i] = NaN)
          /\ scoring.stage # "raised" =>
                /\ \A i \in 1..Len(energies) :
                      (energies[i] = NaN)
                        <=> (pmf.logp_torsions[i] = MinusInfinity)
                /\ energies[scoring.index] # NaN
                /\ scoring.forward_logp # MinusInfinity
                /\ SelectSeq(pmf.logp_torsions,
                             LAMBDA l : l # MinusInfinity)
                     = TorsionPmfOf(NumberDivisions(energies)).logp_torsions

\* a torsion drawn from a scan in which some energy is not a number
C28_DrawnBesideNaNDivision ==
    /\ TorsionScanned
    /\ scoring.stage = "drawn"
    /\ AnyNaN(scoring.term)
    /\ Len(NumberDivisions(scoring.term)) = 1

\* ---- the length of planning ----

\* the atoms that determine_proposal_order has still to place
ToPlace == Len(heavy) + Len(hydrogens)

\* C29: every torsion selection, by the outer loop or by a ring closure,
\* removes one atom from the atoms to place, so that the call ends after
\* at most as many selections as the residue has atoms to place
C29_EverySelectionRemovesAnAtom ==
    /\ Len(SelectedTorsions) + ToPlace = Cardinality(residue.new)
    /\ Len(SelectedTorsions) <= Cardinality(residue.new)

\* ---- acyclic residues ----

\* the atoms joined to the atoms of S by bonds between atoms of within
RECURSIVE ReachedFrom(_, _, _)
ReachedFrom(res, S, within) ==
    LET more == { b \in within \ S :
                    \E a \in S : HasEdge(res.bonds, a, b) }
    IN  IF more = {} THEN S ELSE ReachedFrom(res, S \cup more, within)

\* the atoms positioned at the start form a connected subgraph
PositionedConnected(res) ==
    \/ MappedAtoms(res) = {}
    \/ \E a \in MappedAtoms(res) :
         ReachedFrom(res, {a}, MappedAtoms(res)) = MappedAtoms(res)

\* determine_proposal_order has left its loops without an exception
PlanningReturned == pc \in { "plan_done", "planned", "place", "finish", "done" }

\* C30: for a residue graph without a ring whose atoms positioned at the
\* start form a connected subgraph, once planning has returned every bond
\* of the residue graph is an edge of the connectivity graph: there is no
\* omitted edge, and the energy model built from the plan has no omitted
\* bond, angle or torsion
C30_AcyclicResidueOmitsNothing ==
    (residue.cycles = <<>> /\ PositionedConnected(residue)
       /\ PlanningReturned) =>
      /\ \A i \in 1..Len(residue.bonds) :
            {residue.bonds[i][1], residue.bonds[i][2]}
              \in connectivity_graph.edges
      /\ omitted_edges(residue, connectivity_graph) = <<>>
      /\ Built =>
            /\ special_terms.omitted_bonds = <<>>
            /\ special_terms.omitted_angles = <<>>
            /\ special_terms.omitted_torsions = <<>>

\* an energy model built for an acyclic residue in which a new atom is
\* bonded to another new atom
C30_ChainOfNewAtomsBuilt ==
    /\ JustBuilt
    /\ residue.cycles = <<>>
    /\ PositionedConnected(residue)
    /\ \E i \in 1..Len(residue.bonds) :
         {residue.bonds[i][1], residue.bonds[i][2]} \subseteq residue.new

====
